---------------------------- MODULE Spec2Model ----------------------------
(***************************************************************************)
(* Consensus core of the NIROPoK post-quantum sidechain: hash chains,      *)
(* compact certificates (CCoK), leader election and the per-node           *)
(* blockchain driver with its gossip handlers.                             *)
(*                                                                         *)
(* Specifications:                                                         *)
(*   SpecHashChain  HashChain::new / verify_hash_chain_index as functions  *)
(*   SpecCCoK       one ccok::Builder and the certificates made from it    *)
(*   Spec           a network of nodes running main.rs / p2p.rs            *)
(*   SpecEpochs     the same network followed across an epoch boundary     *)
(*   SpecEpochEnd   the same network with one node at the end of an epoch  *)
(*   SpecCollect    a proposer collecting block signatures                 *)
(*   SpecStaking    one node buffering stakes and ending epochs            *)
(*   SpecValidators two nodes executing the same stakes in any order       *)
(*   SpecElection   select_block_proposer as a function                    *)
(*   SpecSlots      one node and a validator that proposes nothing         *)
(***************************************************************************)
EXTENDS Integers, Sequences, FiniteSets, TLC

VARIABLES
    hc,         \* SpecHashChain: the chain under test and the last verification
    builder,    \* SpecCCoK: the ccok::Builder (params, sigs, signed_weight, ...)
    cert,       \* SpecCCoK: the Certificate last handed to the verifier
    call,       \* SpecCCoK: the last call made and what it returned
    bc,         \* Spec: per node, the Blockchain struct
    events,     \* Spec: per node, the timer events queued for the main loop
    net         \* Spec: every message published on a gossip topic so far

vars == <<hc, builder, cert, call, bc, events, net>>

-----------------------------------------------------------------------------
(* config.rs *)
EPOCH_DURATION == 10
STAKING_AMOUNT == 100
MAX_TXNS_PER_BLOCK == 100

(* Sequence helpers *)
Last(s) == s[Len(s)]
Range(s) == {s[i] : i \in 1..Len(s)}
Max(a, b) == IF a >= b THEN a ELSE b
Min(a, b) == IF a <= b THEN a ELSE b

-----------------------------------------------------------------------------
(***************************************************************************)
(* SHA3-256 and hex strings.                                               *)
(* A digest reached from a 64-bit nonce is the record [n, d]: the nonce    *)
(* and the number of SHA3-256 applications made on it.  Sha3 on such a     *)
(* digest adds one application, so it is injective and has no cycles.      *)
(* A String is [hex, n, d]: hex = TRUE for hex::encode of the digest       *)
(* [n, d]; hex = FALSE for a string hex::decode rejects.                   *)
(***************************************************************************)
Sha3Nonce(nonce) == [n |-> nonce, d |-> 1]
Sha3(digest) == [n |-> digest.n, d |-> digest.d + 1]
HexEncode(digest) == [hex |-> TRUE, n |-> digest.n, d |-> digest.d]
IsHex(str) == str.hex
HexDecode(str) == [n |-> str.n, d |-> str.d]
NotHex == [hex |-> FALSE, n |-> 0, d |-> 0]

(* HashChain::new: h[0] = SHA3(nonce), then EPOCH_DURATION + 1 more links.  *)
(* The Rust vector index i is the TLA+ index i + 1.                         *)
RECURSIVE HashChainLoop(_, _)
HashChainLoop(chain, i) ==
    IF i >= EPOCH_DURATION + 1 THEN chain
    ELSE HashChainLoop(Append(chain, HexEncode(Sha3(HexDecode(Last(chain))))), i + 1)

HashChainNew(nonce) == HashChainLoop(<<HexEncode(Sha3Nonce(nonce))>>, 0)

(* hash_chain.last(): the commitment *)
Commitment(chain) == Last(chain)

(* HashChain::get_hash(index): hash_chain[index], a panic when out of range *)
GetHashInRange(chain, index) == index >= 0 /\ index < Len(chain)
GetHash(chain, index) == chain[index + 1]

(* a faulty proposer that reveals one element too deep *)
RevealIndexOffByOne(timestamp) == EPOCH_DURATION - timestamp

(* the index handle_block_proposal reveals at slot `timestamp` (usize) *)
RevealIndex(timestamp) == EPOCH_DURATION - timestamp + 1

(* verify_hash_chain_index: the loop runs over                              *)
(* (EPOCH_DURATION - index + 1)..(EPOCH_DURATION + 1) in u64.  For          *)
(* index > EPOCH_DURATION the subtraction overflows: a build with overflow  *)
(* checks panics, one without wraps: index = EPOCH_DURATION + 1 wraps back  *)
(* to a start of 0, a larger index to a start above the end (no pass).      *)
VerifyPanics(index, received_hash, overflow_checks) ==
    \/ ~IsHex(received_hash)
    \/ overflow_checks /\ index > EPOCH_DURATION

VerifyPasses(index) ==
    IF index <= EPOCH_DURATION THEN (EPOCH_DURATION + 1) - (EPOCH_DURATION - index + 1)
    ELSE IF index = EPOCH_DURATION + 1 THEN EPOCH_DURATION + 1
    ELSE 0

RECURSIVE Sha3Times(_, _)
Sha3Times(bytes, k) == IF k = 0 THEN bytes ELSE Sha3Times(Sha3(bytes), k - 1)

VerifyHashChainIndex(commitment, index, received_hash) ==
    HexEncode(Sha3Times(HexDecode(received_hash), VerifyPasses(index))) = commitment

-----------------------------------------------------------------------------
(***************************************************************************)
(* Options, signatures and Merkle trees.                                   *)
(* Option<T>: None is <<>>, Some(x) is <<x>>.                               *)
(* A Dilithium signature is the pair of the key that made it and the       *)
(* message it was made over; PublicKey::verify accepts exactly that pair.  *)
(* A Merkle root commits to the whole leaf sequence: the root is modelled  *)
(* as the leaf sequence, a multi-proof as the leaves it does not reveal.   *)
(***************************************************************************)
None == <<>>
Some(x) == <<x>>
IsSome(opt) == Len(opt) = 1
Unwrap(opt) == opt[1]

Sign(key, msg) == [signer |-> key, msg |-> msg]
SigVerify(public_key, msg, sig) == sig.signer = public_key /\ sig.msg = msg

MerkleRoot(items) == items

RECURSIVE Unrevealed(_, _, _)
Unrevealed(items, positions, i) ==
    IF i > Len(items) THEN <<>>
    ELSE IF (i - 1) \in Range(positions) THEN Unrevealed(items, positions, i + 1)
    ELSE <<items[i]>> \o Unrevealed(items, positions, i + 1)

(* MerkleTreeBuilder::prove(positions) *)
MerkleProve(items, positions) == Unrevealed(items, positions, 1)

RECURSIVE Reassemble(_, _, _, _, _)
Reassemble(total, positions, leaves, proof, i) ==
    IF i > total THEN <<>>
    ELSE IF \E k \in 1..Len(positions) : positions[k] = i - 1
         THEN LET k == CHOOSE k \in 1..Len(positions) : positions[k] = i - 1
              IN  <<leaves[k]>> \o Reassemble(total, positions, leaves, proof, i + 1)
         ELSE <<proof[1]>> \o Reassemble(total, positions, leaves, SubSeq(proof, 2, Len(proof)), i + 1)

(* MerkleTreeBuilder::verify(root, proof_hashes, positions, total_leaves, leaves) *)
MerkleVerify(root, proof_hashes, positions, total_leaves, leaves) ==
    /\ Len(positions) = Len(leaves)
    /\ \A k \in 1..Len(positions) : positions[k] >= 0 /\ positions[k] < total_leaves
    /\ \A j, k \in 1..Len(positions) : positions[j] = positions[k] => j = k
    /\ Len(proof_hashes) = total_leaves - Len(positions)
    /\ Reassemble(total_leaves, positions, leaves, proof_hashes, 1) = root

(* Vec::sort_by_key on (position, x) pairs: a stable insertion sort *)
RECURSIVE InsertByKey(_, _)
InsertByKey(sorted, pair) ==
    IF sorted = <<>> THEN <<pair>>
    ELSE IF Last(sorted)[1] <= pair[1] THEN Append(sorted, pair)
    ELSE Append(InsertByKey(SubSeq(sorted, 1, Len(sorted) - 1), pair), Last(sorted))

RECURSIVE SortByKey(_)
SortByKey(pairs) ==
    IF pairs = <<>> THEN <<>>
    ELSE InsertByKey(SortByKey(SubSeq(pairs, 1, Len(pairs) - 1)), Last(pairs))

-----------------------------------------------------------------------------
(***************************************************************************)
(* ccok.rs: Builder                                                        *)
(***************************************************************************)
EmptySlot == [signature |-> None, accumulated_weight |-> 0]

(* Builder::new *)
BuilderNew(params, participants, party_tree_root) ==
    [params |-> params,
     sigs |-> [i \in 1..Len(participants) |-> EmptySlot],
     signed_weight |-> 0,
     participants |-> participants,
     party_tree_root |-> party_tree_root]

(* a faulty add_signature that forgets the duplicate check *)
AddSignatureResultNoDup(b, pos) ==
    IF pos >= Len(b.participants) THEN "InvalidPosition"
    ELSE IF b.participants[pos + 1].weight = 0 THEN "ZeroWeight"
    ELSE "Ok"

(* Builder::add_signature(pos, signature): the error returned, or "Ok" *)
AddSignatureResult(b, pos) ==
    IF pos >= Len(b.participants) THEN "InvalidPosition"
    ELSE IF IsSome(b.sigs[pos + 1].signature) THEN "DuplicateSignature"
    ELSE IF b.participants[pos + 1].weight = 0 THEN "ZeroWeight"
    ELSE "Ok"

(* a faulty add_signature that stores the signature before it looks at the *)
(* weight of the participant                                                *)
AddSignatureEarlyWrite(b, pos, signature) ==
    IF AddSignatureResult(b, pos) \in {"InvalidPosition", "DuplicateSignature"} THEN b
    ELSE IF AddSignatureResult(b, pos) = "ZeroWeight"
         THEN [b EXCEPT !.sigs[pos + 1].signature = Some(signature)]
    ELSE [b EXCEPT !.sigs[pos + 1].signature = Some(signature),
                   !.signed_weight = @ + b.participants[pos + 1].weight]

(* a faulty add_signature that takes the weight of the slot below for the  *)
(* accumulated weight, without the accumulated weight of that slot         *)
AddSignatureNoCarry(b, pos, signature) ==
    IF AddSignatureResult(b, pos) # "Ok" THEN b
    ELSE LET acc == IF pos > 0
                    THEN b.participants[pos].weight
                    ELSE b.sigs[pos + 1].accumulated_weight
         IN  [b EXCEPT !.sigs[pos + 1] = [signature |-> Some(signature),
                                          accumulated_weight |-> acc],
                       !.signed_weight = @ + b.participants[pos + 1].weight]

(* Builder::add_signature(pos, signature): the builder after the call *)
AddSignature(b, pos, signature) ==
    IF AddSignatureResult(b, pos) # "Ok" THEN b
    ELSE LET acc == IF pos > 0
                    THEN b.sigs[pos].accumulated_weight + b.participants[pos].weight
                    ELSE b.sigs[pos + 1].accumulated_weight
         IN  [b EXCEPT !.sigs[pos + 1] = [signature |-> Some(signature),
                                          accumulated_weight |-> acc],
                       !.signed_weight = @ + b.participants[pos + 1].weight]

(* Builder::find_coin_position: cumulative weights of the signed slots *)
RECURSIVE CumWeights(_, _, _)
CumWeights(b, i, cum) ==
    IF i > Len(b.sigs) THEN <<>>
    ELSE IF IsSome(b.sigs[i].signature)
         THEN <<<<i - 1, cum + b.participants[i].weight>>>>
              \o CumWeights(b, i + 1, cum + b.participants[i].weight)
         ELSE CumWeights(b, i + 1, cum)

(* a faulty binary search that also moves down on a coin equal to the       *)
(* cumulative weight                                                        *)
RECURSIVE CoinSearchInclusive(_, _, _, _)
CoinSearchInclusive(cum_weights, coin_value, lo, hi) ==
    IF lo < hi
    THEN LET mid == (lo + hi) \div 2
         IN  IF coin_value <= cum_weights[mid + 1][2]
             THEN CoinSearchInclusive(cum_weights, coin_value, lo, mid)
             ELSE CoinSearchInclusive(cum_weights, coin_value, mid + 1, hi)
    ELSE lo

(* the binary search of find_coin_position over cum_weights (lo, hi 0-based) *)
RECURSIVE CoinSearch(_, _, _, _)
CoinSearch(cum_weights, coin_value, lo, hi) ==
    IF lo < hi
    THEN LET mid == (lo + hi) \div 2
         IN  IF coin_value < cum_weights[mid + 1][2]
             THEN CoinSearch(cum_weights, coin_value, lo, mid)
             ELSE CoinSearch(cum_weights, coin_value, mid + 1, hi)
    ELSE lo

(* Builder::find_coin_position(coin_value): Some(position) or None for Err *)
FindCoinPosition(b, coin_value) ==
    LET cum_weights == CumWeights(b, 1, 0)
        lo == CoinSearch(cum_weights, coin_value, 0, Len(cum_weights))
    IN  IF cum_weights = <<>> THEN None
        ELSE IF lo < Len(cum_weights) THEN Some(cum_weights[lo + 1][1])
        ELSE None

(* Keccak-256 of the coin transcript, first 8 bytes little-endian.  The    *)
(* hash is a fixed function of its six inputs; it is modelled by a fixed    *)
(* mixing function of the same six inputs into 0..KeccakModulus-1.  The     *)
(* Merkle roots enter by a number that changes with every signed slot and   *)
(* every participant weight, a message (a byte sequence) by MsgNumber.        *)
RECURSIVE SigCommitNumber(_, _)
SigCommitNumber(sigs, i) ==
    IF i > Len(sigs) THEN 0
    ELSE (IF IsSome(sigs[i].signature) THEN 2 * i + 1 + sigs[i].accumulated_weight ELSE 0)
         + 3 * SigCommitNumber(sigs, i + 1)

RECURSIVE PartyRootNumber(_, _)
PartyRootNumber(participants, i) ==
    IF i > Len(participants) THEN 0
    ELSE (i * participants[i].weight + 1) + 2 * PartyRootNumber(participants, i + 1)

RECURSIVE MsgNumber(_)
MsgNumber(msg) ==
    IF msg = <<>> THEN 0 ELSE Len(msg) * Last(msg) + MsgNumber(SubSeq(msg, 1, Len(msg) - 1))

KeccakModulus == 251
Keccak64(index, signed_weight, proven_weight, sig_commit, party_tree_root, msg) ==
    (7 * index + 3 * signed_weight + 5 * proven_weight + 11 * SigCommitNumber(sig_commit, 1)
       + 13 * PartyRootNumber(party_tree_root, 1) + 17 * MsgNumber(msg) + 1) % KeccakModulus

(* Builder::coin_choice(index, sig_commit); the caller guards the          *)
(* remainder by a zero signed_weight                                        *)
CoinChoice(b, index, sig_commit) ==
    Keccak64(index, b.signed_weight, b.params.proven_weight, sig_commit,
             b.party_tree_root, b.params.msg) % b.signed_weight

(* max(1, ceil(security_param * (1 - proven_weight/signed_weight) * 0.5)),  *)
(* in exact arithmetic; 0/0 is NaN, which the cast to usize turns into 0.   *)
NumReveals(security_param, proven_weight, signed_weight) ==
    IF signed_weight = 0 THEN 1
    ELSE Max(1, (security_param * (signed_weight - proven_weight) + 2 * signed_weight - 1)
                   \div (2 * signed_weight))

(* the reveal loop of Builder::build: reveal_info after coins i..num_reveals-1 *)
RECURSIVE RevealLoop(_, _, _, _)
RevealLoop(b, i, num_reveals, reveal_info) ==
    IF i >= num_reveals THEN reveal_info
    ELSE LET pos == Unwrap(FindCoinPosition(b, CoinChoice(b, i, MerkleRoot(b.sigs))))
         IN  IF \E k \in 1..Len(reveal_info) : reveal_info[k][1] = pos
             THEN RevealLoop(b, i + 1, num_reveals, reveal_info)
             ELSE RevealLoop(b, i + 1, num_reveals, Append(reveal_info, <<pos, i>>))

(* a faulty build that reveals the first participant for every position *)
MakeCertificateWrongParty(b, reveal_info) ==
    LET sorted == SortByKey(reveal_info)
        sorted_positions == [k \in 1..Len(sorted) |-> sorted[k][1]]
        sorted_coin_indices == [k \in 1..Len(sorted) |-> sorted[k][2]]
    IN  [sig_commit |-> MerkleRoot(b.sigs),
         signed_weight |-> b.signed_weight,
         total_sigs |-> Len(b.sigs),
         reveals |-> [pos \in Range(sorted_positions) |->
                        [sig_slot |-> b.sigs[pos + 1], party |-> b.participants[1]]],
         sig_proofs |-> MerkleProve(b.sigs, sorted_positions),
         party_proofs |-> MerkleProve(b.participants, sorted_positions),
         reveal_positions |-> sorted_positions,
         reveal_indices |-> sorted_coin_indices]

(* a faulty build that leaves the reveals in the order of their coins *)
MakeCertificateUnsorted(b, reveal_info) ==
    LET sorted == reveal_info
        sorted_positions == [k \in 1..Len(sorted) |-> sorted[k][1]]
        sorted_coin_indices == [k \in 1..Len(sorted) |-> sorted[k][2]]
    IN  [sig_commit |-> MerkleRoot(b.sigs),
         signed_weight |-> b.signed_weight,
         total_sigs |-> Len(b.sigs),
         reveals |-> [pos \in Range(sorted_positions) |->
                        [sig_slot |-> b.sigs[pos + 1], party |-> b.participants[pos + 1]]],
         sig_proofs |-> MerkleProve(b.sigs, sorted_positions),
         party_proofs |-> MerkleProve(b.participants, sorted_positions),
         reveal_positions |-> sorted_positions,
         reveal_indices |-> sorted_coin_indices]

(* the Certificate assembled from a list of (position, coin index) pairs *)
MakeCertificate(b, reveal_info) ==
    LET sorted == SortByKey(reveal_info)
        sorted_positions == [k \in 1..Len(sorted) |-> sorted[k][1]]
        sorted_coin_indices == [k \in 1..Len(sorted) |-> sorted[k][2]]
    IN  [sig_commit |-> MerkleRoot(b.sigs),
         signed_weight |-> b.signed_weight,
         total_sigs |-> Len(b.sigs),
         reveals |-> [pos \in Range(sorted_positions) |->
                        [sig_slot |-> b.sigs[pos + 1], party |-> b.participants[pos + 1]]],
         sig_proofs |-> MerkleProve(b.sigs, sorted_positions),
         party_proofs |-> MerkleProve(b.participants, sorted_positions),
         reveal_positions |-> sorted_positions,
         reveal_indices |-> sorted_coin_indices]

(* Builder::build: "InsufficientWeight", "Panic" (remainder by zero in      *)
(* coin_choice when nothing is signed) or "Ok"                              *)
BuildResult(b) ==
    IF b.signed_weight < b.params.proven_weight THEN "InsufficientWeight"
    ELSE IF b.signed_weight = 0 THEN "Panic"
    ELSE "Ok"

(* Builder::build: the certificate of an "Ok" build *)
Build(b) ==
    MakeCertificate(b, RevealLoop(b, 0,
        NumReveals(b.params.security_param, b.params.proven_weight, b.signed_weight), <<>>))

-----------------------------------------------------------------------------
(***************************************************************************)
(* ccok.rs: Certificate                                                    *)
(***************************************************************************)
(* the loop of Certificate::verify over reveal_positions: the first check  *)
(* that fails decides                                                      *)
RECURSIVE VerifyReveals(_, _, _)
VerifyReveals(c, params, k) ==
    IF k > Len(c.reveal_positions) THEN "Ok"
    ELSE LET pos == c.reveal_positions[k]
         IN  IF pos \notin DOMAIN c.reveals THEN "Err"
             ELSE IF ~IsSome(c.reveals[pos].sig_slot.signature) THEN "Ok(false)"
             ELSE IF ~SigVerify(c.reveals[pos].party.public_key, params.msg,
                                Unwrap(c.reveals[pos].sig_slot.signature))
                  THEN "Ok(false)"
             ELSE VerifyReveals(c, params, k + 1)

(* Certificate::find_coin_position: the revealed positions in ascending    *)
(* order (positions.sort_by_key)                                           *)
SortedReveals(c) ==
    CHOOSE positions \in [1..Cardinality(DOMAIN c.reveals) -> DOMAIN c.reveals] :
        \A i, j \in DOMAIN positions : i < j => positions[i] < positions[j]

(* the fold over positions[..mid]: the weight of the first mid reveals *)
RECURSIVE RevealedWeight(_, _, _)
RevealedWeight(c, positions, mid) ==
    IF mid = 0 THEN 0
    ELSE RevealedWeight(c, positions, mid - 1) + c.reveals[positions[mid]].party.weight

(* the binary search of Certificate::find_coin_position (lo, hi 0-based) *)
RECURSIVE CertCoinSearch(_, _, _, _, _)
CertCoinSearch(c, positions, coin_value, lo, hi) ==
    IF lo < hi
    THEN LET mid == (lo + hi) \div 2
             mid_l == RevealedWeight(c, positions, mid)
         IN  IF coin_value < mid_l
             THEN CertCoinSearch(c, positions, coin_value, lo, mid)
             ELSE IF coin_value < mid_l + c.reveals[positions[mid + 1]].party.weight
             THEN Some(positions[mid + 1])
             ELSE CertCoinSearch(c, positions, coin_value, mid + 1, hi)
    ELSE None

(* Certificate::find_coin_position(coin_value, sig_slots): Some(position)  *)
(* or None for Err; sig_slots is not read                                  *)
CertFindCoinPosition(c, coin_value) ==
    CertCoinSearch(c, SortedReveals(c), coin_value, 0, Cardinality(DOMAIN c.reveals))

(* Certificate::coin_choice: the same hash as Builder::coin_choice, over   *)
(* the certificate's own sig_commit and signed_weight                      *)
CertCoinChoice(c, index, params, party_tree_root) ==
    Keccak64(index, c.signed_weight, params.proven_weight, c.sig_commit,
             party_tree_root, params.msg) % c.signed_weight

(* Certificate::verify(params, party_tree_root) *)
CertificateVerify(c, params, party_tree_root) ==
    IF c.signed_weight < params.proven_weight THEN "Ok(false)"
    ELSE IF VerifyReveals(c, params, 1) # "Ok" THEN VerifyReveals(c, params, 1)
    ELSE LET n == Len(c.reveal_positions)
             sig_pairs == SortByKey([k \in 1..n |->
                              <<c.reveal_positions[k], c.reveals[c.reveal_positions[k]].sig_slot>>])
             party_pairs == SortByKey([k \in 1..n |->
                              <<c.reveal_positions[k], c.reveals[c.reveal_positions[k]].party>>])
         IN  IF ~MerkleVerify(c.sig_commit, c.sig_proofs,
                              [k \in 1..n |-> sig_pairs[k][1]], c.total_sigs,
                              [k \in 1..n |-> sig_pairs[k][2]])
             THEN "Ok(false)"
             ELSE IF ~MerkleVerify(party_tree_root, c.party_proofs,
                                   [k \in 1..n |-> party_pairs[k][1]], c.total_sigs,
                                   [k \in 1..n |-> party_pairs[k][2]])
             THEN "Ok(false)"
             ELSE "Ok(true)"

-----------------------------------------------------------------------------
(***************************************************************************)
(* SpecCCoK: one Builder driven through its public calls.                  *)
(***************************************************************************)
NumParticipants == 2
Weights == {0, 10, 20}

(* participant p (0-based) holds key p + 1 *)
KeyOf(pos) == pos + 1
ParticipantLists ==
    {[i \in 1..NumParticipants |-> [public_key |-> KeyOf(i - 1), weight |-> w[i]]] :
        w \in [1..NumParticipants -> Weights]}

RECURSIVE SumWeights(_, _)
SumWeights(participants, i) ==
    IF i > Len(participants) THEN 0
    ELSE participants[i].weight + SumWeights(participants, i + 1)
TotalWeight(participants) == SumWeights(participants, 1)

(* the Params a builder is made with: the message <<1>>, a threshold of    *)
(* nothing, half, all or more than all of the weight, and security_param   *)
(* 4 or (for half and all, as create_test_builder and the driver do) 128   *)
ParamChoices(participants) ==
    LET total == TotalWeight(participants)
    IN  {[msg |-> <<1>>, proven_weight |-> pw, security_param |-> 4] :
            pw \in {0, total \div 2, total, total + 1}}
        \cup {[msg |-> <<1>>, proven_weight |-> pw, security_param |-> 128] :
            pw \in {total \div 2, total}}

NoCert == [origin |-> "none"]
NoCall == [op |-> "new", pos |-> 0, result |-> "Ok", same_inputs |-> TRUE]

IdleHashChain == [chain |-> <<>>, index |-> 0, received |-> NotHex,
                  overflow_checks |-> FALSE, outcome |-> "none"]

InitCCoK ==
    /\ \E participants \in ParticipantLists :
         \E params \in ParamChoices(participants) :
            builder = BuilderNew(params, participants, MerkleRoot(participants))
    /\ cert = NoCert
    /\ call = NoCall
    /\ hc = IdleHashChain
    /\ bc = <<>> /\ events = <<>> /\ net = {}

(* a signature the caller may hand in for position pos: the participant's  *)
(* own over params.msg, or one made by another key                         *)
CandidateSignatures(pos) ==
    {Sign(KeyOf(pos), builder.params.msg), Sign(KeyOf(pos) + 1, builder.params.msg)}

AllSignaturesValid(b) ==
    \A i \in 1..Len(b.sigs) :
        IsSome(b.sigs[i].signature) =>
            SigVerify(b.participants[i].public_key, b.params.msg, Unwrap(b.sigs[i].signature))

(* builder.add_signature(pos, signature) *)
CAddSignature ==
    \E pos \in 0..NumParticipants :
      \E signature \in CandidateSignatures(pos) :
        /\ AllSignaturesValid(builder) \/ SigVerify(KeyOf(pos), builder.params.msg, signature)
        /\ builder' = AddSignature(builder, pos, signature)
        /\ call' = [op |-> "add_signature", pos |-> pos,
                    result |-> AddSignatureResult(builder, pos), same_inputs |-> TRUE]
        /\ UNCHANGED <<cert, hc, bc, events, net>>

(* builder.build() *)
CBuild ==
    /\ call' = [op |-> "build", pos |-> 0, result |-> BuildResult(builder),
                same_inputs |-> TRUE]
    /\ cert' = IF BuildResult(builder) = "Ok"
               THEN [origin |-> "build", c |-> Build(builder), from |-> builder]
               ELSE cert
    /\ UNCHANGED <<builder, hc, bc, events, net>>

(* a certificate put together without build(): any one signed position is  *)
(* revealed under coin index 0, with honest Merkle proofs                   *)
CForge ==
    \E pos \in 0..(NumParticipants - 1) :
        /\ IsSome(builder.sigs[pos + 1].signature)
        /\ builder.signed_weight >= builder.params.proven_weight
        /\ cert' = [origin |-> "forged", c |-> MakeCertificate(builder, <<<<pos, 0>>>>),
                    from |-> builder]
        /\ call' = [op |-> "forge", pos |-> pos, result |-> "Ok", same_inputs |-> TRUE]
        /\ UNCHANGED <<builder, hc, bc, events, net>>

(* cert.verify(params, party_tree_root): with the builder's own params and *)
(* root, or with another message, or with the root of another party list   *)
CVerify ==
    /\ cert.origin # "none"
    /\ \E inputs \in
            {<<builder.params, builder.party_tree_root>>,
             <<[builder.params EXCEPT !.msg = <<2>>], builder.party_tree_root>>,
             <<builder.params, MerkleRoot([builder.participants EXCEPT ![1].weight = @ + 1])>>} :
         LET params == inputs[1]
             root == inputs[2]
         IN
         call' = [op |-> "verify", pos |-> 0,
                  result |-> CertificateVerify(cert.c, params, root),
                  same_inputs |-> (params = builder.params /\ root = builder.party_tree_root)]
    /\ UNCHANGED <<builder, cert, hc, bc, events, net>>

NextCCoK == CAddSignature \/ CBuild \/ CForge \/ CVerify

SpecCCoK == InitCCoK /\ [][NextCCoK]_vars

-----------------------------------------------------------------------------
(***************************************************************************)
(* Properties of the Builder and the Certificate (SpecCCoK)                *)
(***************************************************************************)
(* C6: when every signature in the builder is a valid signature over       *)
(* params.msg by the participant of its position and party_tree_root is    *)
(* the Merkle root of the participants, a certificate returned by build()  *)
(* is accepted, Ok(true), by verify with the same params and root.         *)
C6_BuiltCertificateVerifies ==
    (/\ call.op = "verify"
     /\ call.same_inputs
     /\ cert.origin = "build"
     /\ AllSignaturesValid(builder)
     /\ builder.party_tree_root = MerkleRoot(builder.participants))
    => call.result = "Ok(true)"

C6_Witness ==
    /\ call.op = "verify"
    /\ call.same_inputs
    /\ cert.origin = "build"
    /\ AllSignaturesValid(builder)
    /\ Len(cert.c.reveal_positions) >= 2
    /\ call.result = "Ok(true)"

(* C7: verify re-derives the coin of every reveal_indices[i] and accepts   *)
(* only when the position the coin resolves to, among the signers the      *)
(* certificate was made from, is reveal_positions[i].                      *)
C7_AcceptedRevealsChosenByCoins ==
    (/\ call.op = "verify"
     /\ call.same_inputs
     /\ call.result = "Ok(true)")
    => \A i \in 1..Len(cert.c.reveal_positions) :
          FindCoinPosition(cert.from,
              CertCoinChoice(cert.c, cert.c.reveal_indices[i], builder.params,
                             builder.party_tree_root))
          = Some(cert.c.reveal_positions[i])

(* C8: build() fails with InsufficientWeight when signed_weight is below   *)
(* proven_weight, and otherwise returns a certificate whose signed_weight  *)
(* is at least proven_weight.                                              *)
C8_BuildOutcome ==
    call.op = "build" =>
        IF builder.signed_weight < builder.params.proven_weight
        THEN call.result = "InsufficientWeight"
        ELSE /\ call.result = "Ok"
             /\ cert.origin = "build"
             /\ cert.c.signed_weight >= builder.params.proven_weight

(* the sum of the weights of the positions that hold a signature *)
RECURSIVE SignedSum(_, _)
SignedSum(b, i) ==
    IF i > Len(b.sigs) THEN 0
    ELSE (IF IsSome(b.sigs[i].signature) THEN b.participants[i].weight ELSE 0)
         + SignedSum(b, i + 1)

(* C9: after any sequence of add_signature calls, signed_weight is the sum *)
(* of the weights of the signed positions; it never exceeds the total      *)
(* weight, and a builder with proven_weight above the total never builds.  *)
C9_SignedWeightIsSum ==
    /\ builder.signed_weight = SignedSum(builder, 1)
    /\ builder.signed_weight <= TotalWeight(builder.participants)
    /\ builder.params.proven_weight > TotalWeight(builder.participants) =>
          /\ cert.origin # "build"
          /\ call.op = "build" => call.result = "InsufficientWeight"

C9_Witness ==
    /\ call.op = "build"
    /\ call.result = "InsufficientWeight"
    /\ builder.params.proven_weight > TotalWeight(builder.participants)
    /\ builder.signed_weight = TotalWeight(builder.participants)
    /\ \A i \in 1..Len(builder.sigs) : IsSome(builder.sigs[i].signature)

(* C10: add_signature(pos, sig) fails with InvalidPosition when pos >= N,  *)
(* with DuplicateSignature when the slot already holds a signature and     *)
(* with ZeroWeight when the participant has weight 0, and a failing call   *)
(* leaves the sig slots and signed_weight as they were.                    *)
C10_FailingAddSignature ==
    [][call'.op = "add_signature" =>
         LET pos == call'.pos
             N == Len(builder.participants)
         IN  /\ pos >= N => call'.result = "InvalidPosition"
             /\ (pos < N /\ IsSome(builder.sigs[pos + 1].signature)) =>
                    call'.result = "DuplicateSignature"
             /\ (pos < N /\ ~IsSome(builder.sigs[pos + 1].signature)
                         /\ builder.participants[pos + 1].weight = 0) =>
                    call'.result = "ZeroWeight"
             /\ call'.result # "Ok" =>
                    /\ builder'.sigs = builder.sigs
                    /\ builder'.signed_weight = builder.signed_weight]_vars

C10_Witness ==
    /\ call.op = "add_signature"
    /\ call.result = "DuplicateSignature"
    /\ builder.signed_weight > 0

-----------------------------------------------------------------------------
(***************************************************************************)
(* SpecHashChain: a hash chain is generated and verify_hash_chain_index is *)
(* called on its commitment with any slot index and any received string.   *)
(***************************************************************************)
MaxNonce == 2
Nonces == 1..MaxNonce
SlotIndices == 0..(EPOCH_DURATION + 2)

(* the strings a peer may send as a reveal: any element of any chain, or a *)
(* string that is not hex                                                  *)
ReceivedHashes ==
    {HashChainNew(nonce)[i] : nonce \in Nonces, i \in 1..(EPOCH_DURATION + 2)}
        \cup {NotHex}

IdleBuilder ==
    BuilderNew([msg |-> <<>>, proven_weight |-> 0, security_param |-> 0], <<>>, <<>>)

InitHashChain ==
    /\ hc = IdleHashChain
    /\ builder = IdleBuilder
    /\ cert = NoCert
    /\ call = NoCall
    /\ bc = <<>> /\ events = <<>> /\ net = {}

(* HashChain::new() with a random nonce *)
HNew ==
    \E nonce \in Nonces :
        /\ hc' = [IdleHashChain EXCEPT !.chain = HashChainNew(nonce), !.outcome = "new"]
        /\ UNCHANGED <<builder, cert, call, bc, events, net>>

(* verify_hash_chain_index(commitment of the chain, index, received_hash)  *)
HVerify ==
    /\ hc.outcome # "none"
    /\ \E index \in SlotIndices, received_hash \in ReceivedHashes,
          overflow_checks \in BOOLEAN :
         hc' = [chain |-> hc.chain, index |-> index, received |-> received_hash,
                overflow_checks |-> overflow_checks,
                outcome |-> IF VerifyPanics(index, received_hash, overflow_checks)
                            THEN "panic"
                            ELSE IF VerifyHashChainIndex(Commitment(hc.chain), index,
                                                         received_hash)
                                 THEN "true" ELSE "false"]
    /\ UNCHANGED <<builder, cert, call, bc, events, net>>

NextHashChain == HNew \/ HVerify

SpecHashChain == InitHashChain /\ [][NextHashChain]_vars

C5_MismatchReturnsFalse ==
    (/\ hc.outcome \in {"true", "false", "panic"}
     /\ hc.index <= EPOCH_DURATION
     /\ hc.received # GetHash(hc.chain, RevealIndex(hc.index)))
    => hc.outcome = "false"

-----------------------------------------------------------------------------
(***************************************************************************)
(* Accounts, transactions, blocks, the validator set.                      *)
(* An address is a natural number.  Wallet::new derives the keypair from   *)
(* the fixed seed [0u8; 32], so the wallet of every node holds the same    *)
(* keypair and has the same address.                                       *)
(***************************************************************************)
WalletNew == 0

(* a transaction signed by its sender; hash and signature are fixed once   *)
Transaction(hash, sender, recipient, amount, txn_type) ==
    [hash |-> hash, sender |-> sender, recipient |-> recipient, amount |-> amount,
     txn_type |-> txn_type, signature |-> Sign(sender, hash)]

(* Transaction::verify *)
TxnVerify(txn) == SigVerify(txn.sender, txn.hash, txn.signature)

(* Block::compute_merkle_root: [0u8; 32], modelled as <<>>, for no         *)
(* transactions, otherwise the root over the transaction hashes            *)
ComputeMerkleRoot(txn) == [i \in 1..Len(txn) |-> txn[i].hash]

(* Block::new *)
BlockNew(id, previous_hash, timestamp, txn, proposer_address, proposer_hash, seed, certificate) ==
    [id |-> id, hash |-> ComputeMerkleRoot(txn), previous_hash |-> previous_hash,
     timestamp |-> timestamp, txn |-> txn, proposer_address |-> proposer_address,
     proposer_hash |-> proposer_hash, seed |-> seed, certificate |-> certificate]

(* a map as a function over its key set *)
MapInsert(map, key, value) ==
    [k \in (DOMAIN map) \cup {key} |-> IF k = key THEN value ELSE map[k]]
MapRemove(map, key) == [k \in (DOMAIN map) \ {key} |-> map[k]]
EmptyMap == [k \in {} |-> 0]

(* Validator::new *)
ValidatorNew ==
    [state |-> [accounts |-> <<>>, balances |-> EmptyMap], hash_chain_com |-> EmptyMap]

(* State::add_account *)
AddAccount(state, account) ==
    IF account \in DOMAIN state.balances THEN state
    ELSE [accounts |-> Append(state.accounts, account),
          balances |-> MapInsert(state.balances, account, 0)]

(* State::stake: and_modify on the entry *)
Stake(state, account, amount) ==
    IF account \in DOMAIN state.balances
    THEN [state EXCEPT !.balances[account] = @ + amount]
    ELSE state

(* Validator::add_validator *)
AddValidator(validator, account, txn) ==
    LET added == AddAccount(validator.state, account)
    IN  IF txn.txn_type = "STAKE" /\ txn.amount >= STAKING_AMOUNT
        THEN LET staked == Stake(added, account, txn.amount)
             IN  [validator EXCEPT !.state =
                     [staked EXCEPT !.balances = MapInsert(@, account, txn.amount)]]
        ELSE [validator EXCEPT !.state = added]

(* Validator::apply_buffer *)
RECURSIVE ApplyBuffer(_, _, _, _)
ApplyBuffer(validator, accounts, txns, i) ==
    IF i > Len(accounts) THEN validator
    ELSE ApplyBuffer(AddValidator(validator, accounts[i], txns[i]), accounts, txns, i + 1)

(* Validator::update_validator_com *)
UpdateValidatorCom(validator, account, com) ==
    [validator EXCEPT !.hash_chain_com = MapInsert(@, account, com)]

-----------------------------------------------------------------------------
(***************************************************************************)
(* utils.rs: seeds and the leader election.                                *)
(* A seed is the XOR of the first 32 bytes of some strings; it is modelled *)
(* as the set of strings that occur an odd number of times in the XOR, so  *)
(* XOR is the symmetric difference and the zero seed is {}.                *)
(***************************************************************************)
Xor(a, b) == (a \ b) \cup (b \ a)

(* Seed::new_epoch_seed: XOR over every entry of validator.hash_chain_com *)
RECURSIVE XorComs(_, _)
XorComs(hash_chain_com, keys) ==
    IF keys = {} THEN {}
    ELSE LET k == CHOOSE k \in keys : TRUE
         IN  Xor({hash_chain_com[k].hash_chain_index}, XorComs(hash_chain_com, keys \ {k}))

NewEpochSeed(validator) == XorComs(validator.hash_chain_com, DOMAIN validator.hash_chain_com)

(* get_block_seed(proposer_hash, prev_seed), for a proposer_hash of 32     *)
(* bytes or more                                                           *)
GetBlockSeed(proposer_hash, prev_seed) == Xor({proposer_hash}, prev_seed)

(* SHA3-256(seed || commitment), first 8 bytes big-endian: a fixed         *)
(* function of the two inputs, modelled by a fixed mixing function into    *)
(* 0..DigestModulus-1.  One unit of the result stands for 1e9, so that     *)
(* n - numeric/balance has the sign of balance - ElectionDigest.           *)
StringNumber(str) == IF str.hex THEN 7 * str.n + 3 * str.d ELSE 1

RECURSIVE SeedNumber(_)
SeedNumber(seed) ==
    IF seed = {} THEN 0
    ELSE LET x == CHOOSE x \in seed : TRUE
         IN  StringNumber(x) + SeedNumber(seed \ {x})

DigestModulus == 256
ElectionDigest(seed, hash_chain_index) ==
    (31 * SeedNumber(seed) + 17 * StringNumber(hash_chain_index) + 5) % DigestModulus

(* an f64 weight n - numeric/balance in units of 1e9: the fraction         *)
(* num/den, or -inf (numeric/0.0 with numeric > 0), or NaN (0/0.0)         *)
Finite(num, den) == [kind |-> "finite", num |-> num, den |-> den]
NegInfinity == [kind |-> "-inf", num |-> 0, den |-> 1]
NaN == [kind |-> "nan", num |-> 0, den |-> 1]
PosInfinity == [kind |-> "inf", num |-> 0, den |-> 1]

(* a < b on f64 *)
WeightLess(a, b) ==
    IF a.kind = "nan" \/ b.kind = "nan" THEN FALSE
    ELSE IF a.kind = "-inf" THEN b.kind # "-inf"
    ELSE IF a.kind = "inf" THEN FALSE
    ELSE IF b.kind = "inf" THEN TRUE
    ELSE IF b.kind = "-inf" THEN FALSE
    ELSE a.num * b.den < b.num * a.den

(* the first loop of select_block_proposer: weights[i] *)
ProposerWeight(seed, validator, account) ==
    IF account \in DOMAIN validator.hash_chain_com
    THEN LET numeric_value ==
                 ElectionDigest(seed, validator.hash_chain_com[account].hash_chain_index)
         IN  IF account \in DOMAIN validator.state.balances
             THEN LET balance == validator.state.balances[account]
                  IN  IF balance > 0 THEN Finite(balance - numeric_value, balance)
                      ELSE IF numeric_value > 0 THEN NegInfinity
                      ELSE NaN
             ELSE Finite(0, 1)
    ELSE Finite(0, 1)

(* the second loop taking the last of the lowest weights *)
RECURSIVE LowestWeightLastWins(_, _, _, _, _, _)
LowestWeightLastWins(seed, validator, i, lowest_weight, proposer, accounts) ==
    IF i > Len(accounts) THEN proposer
    ELSE LET weight == ProposerWeight(seed, validator, accounts[i])
         IN  IF ~WeightLess(lowest_weight, weight)
             THEN LowestWeightLastWins(seed, validator, i + 1, weight, accounts[i], accounts)
             ELSE LowestWeightLastWins(seed, validator, i + 1, lowest_weight, proposer,
                                       accounts)

(* the second loop: the first strictly lowest weight wins *)
RECURSIVE LowestWeight(_, _, _, _, _, _)
LowestWeight(seed, validator, i, lowest_weight, proposer, accounts) ==
    IF i > Len(accounts) THEN proposer
    ELSE LET weight == ProposerWeight(seed, validator, accounts[i])
         IN  IF WeightLess(weight, lowest_weight)
             THEN LowestWeight(seed, validator, i + 1, weight, accounts[i], accounts)
             ELSE LowestWeight(seed, validator, i + 1, lowest_weight, proposer, accounts)

(* select_block_proposer panics on accounts[0] of an empty sequence *)
SelectPanics(validator) == validator.state.accounts = <<>>
SelectBlockProposer(seed, validator) ==
    LowestWeight(seed, validator, 1, PosInfinity, validator.state.accounts[1],
                 validator.state.accounts)

-----------------------------------------------------------------------------
(***************************************************************************)
(* blockchain.rs: the Blockchain of one node.                              *)
(***************************************************************************)
ZeroHash == <<>>

(* Blockchain::new(wallet): the node's own account is a validator with a   *)
(* stake of 100.00, and its wallet is funded                               *)
BlockchainNew(wallet) ==
    [chain |-> <<>>,
     mempool |-> <<>>,
     wallet |-> wallet,
     state |-> [accounts |-> <<>>, balances |-> MapInsert(EmptyMap, wallet, 10000)],
     validator |-> AddValidator(ValidatorNew, wallet,
                                Transaction(0, wallet, wallet, 100, "STAKE")),
     epoch |-> [timestamp |-> 0],
     buffer |-> [accounts |-> <<>>, txns |-> <<>>],
     hash_chain |-> <<>>,
     pending_signatures |-> EmptyMap,
     last_certificate |-> None,
     crashed |-> FALSE,
     panicked_in |-> "none"]

(* a panic ends the process *)
Crash(b) == [b EXCEPT !.crashed = TRUE]

(* the node after a handler, with the handler a panic came from recorded *)
After(b, handler) == IF b.crashed THEN [b EXCEPT !.panicked_in = handler] ELSE b

(* the participant list collect_block_signature makes of the validators *)
Participants(validator) ==
    [i \in 1..Len(validator.state.accounts) |->
        [public_key |-> validator.state.accounts[i],
         weight |-> IF validator.state.accounts[i] \in DOMAIN validator.state.balances
                    THEN validator.state.balances[validator.state.accounts[i]]
                    ELSE 0]]

(* the loop of collect_block_signature over the collected signatures *)
RECURSIVE AddCollected(_, _, _)
AddCollected(cert_builder, collected_sigs, i) ==
    IF i > Len(collected_sigs) THEN cert_builder
    ELSE LET sig == collected_sigs[i]
             found == {k \in 1..Len(cert_builder.participants) :
                          cert_builder.participants[k].public_key = sig.sender}
         IN  IF found = {} THEN AddCollected(cert_builder, collected_sigs, i + 1)
             ELSE LET idx == (CHOOSE k \in found : \A j \in found : k <= j) - 1
                  IN  AddCollected(AddSignature(cert_builder, idx, sig.signature),
                                   collected_sigs, i + 1)

(* collect_block_signature: the pending list of the block after the        *)
(* signature was pushed, which it is when its sender is new in the list    *)
PendingAfter(b, block_sig) ==
    LET old == IF block_sig.block_id \in DOMAIN b.pending_signatures
               THEN b.pending_signatures[block_sig.block_id] ELSE <<>>
    IN  IF \E i \in 1..Len(old) : old[i].sender = block_sig.sender
        THEN old ELSE Append(old, block_sig)

(* faulty Params that ask for half of the total stake to be proven *)
CertParamsHalfWeight(b, block_hash) ==
    [msg |-> block_hash, proven_weight |-> TotalWeight(Participants(b.validator)) \div 2,
     security_param |-> 128]

(* collect_block_signature: the Params of the certificate builder *)
CertParams(b, block_hash) ==
    [msg |-> block_hash, proven_weight |-> TotalWeight(Participants(b.validator)),
     security_param |-> 128]

(* Blockchain::collect_block_signature *)
CollectBlockSignature(b, block_sig) ==
    LET expected == Len(b.validator.state.accounts)
        sigs == PendingAfter(b, block_sig)
        should_build == Len(sigs) >= expected
        block_id == sigs[1].block_id
        block_hash == sigs[1].block_hash
        participants == Participants(b.validator)
        params == CertParams(b, block_hash)
        cert_builder == AddCollected(BuilderNew(params, participants,
                                                MerkleRoot(participants)), sigs, 1)
        pending == MapInsert(b.pending_signatures, block_sig.block_id, sigs)
    IN  IF ~should_build THEN [b EXCEPT !.pending_signatures = pending]
        ELSE IF BuildResult(cert_builder) = "Ok"
             THEN [b EXCEPT !.pending_signatures = MapRemove(pending, block_id),
                            !.last_certificate = Some(<<block_id, Build(cert_builder)>>)]
        ELSE IF BuildResult(cert_builder) = "Panic"
             THEN Crash([b EXCEPT !.pending_signatures = MapRemove(pending, block_id)])
        ELSE [b EXCEPT !.pending_signatures = MapRemove(pending, block_id)]

(* the BlockSignature a node makes over a block hash *)
BlockSignature(b, block) ==
    [block_id |-> block.id, block_hash |-> block.hash, sender |-> b.wallet,
     signature |-> Sign(b.wallet, block.hash)]

(* Blockchain::propose_block_with_certificate: the block and the node      *)
(* after it has collected its own signature                                *)
ProposeBlockWithCertificate(b, proposer_hash, proposer_address, txns, seed, certificate) ==
    LET block == IF b.chain = <<>>
                 THEN BlockNew(1, ZeroHash, b.epoch.timestamp, <<>>, proposer_address,
                               proposer_hash, seed, certificate)
                 ELSE BlockNew(Last(b.chain).id + 1, Last(b.chain).hash,
                               Last(b.chain).timestamp, txns, proposer_address,
                               proposer_hash, seed, certificate)
    IN  [block |-> block, node |-> CollectBlockSignature(b, BlockSignature(b, block))]

(* propose_block attaching whatever certificate is stored *)
ProposeBlockAlwaysAttach(b, proposer_hash, proposer_address, txns, seed) ==
    LET cert_to_attach == IF IsSome(b.last_certificate)
                          THEN Some(Unwrap(b.last_certificate)[2])
                          ELSE None
    IN  ProposeBlockWithCertificate([b EXCEPT !.last_certificate = None], proposer_hash,
                                    proposer_address, txns, seed, cert_to_attach)

(* Blockchain::propose_block: last_certificate is taken, and attached only *)
(* when it was computed for the last block of the chain                    *)
ProposeBlock(b, proposer_hash, proposer_address, txns, seed) ==
    LET last_block_id == IF b.chain = <<>> THEN 0 ELSE Last(b.chain).id
        cert_to_attach == IF IsSome(b.last_certificate)
                             /\ Unwrap(b.last_certificate)[1] = last_block_id
                          THEN Some(Unwrap(b.last_certificate)[2])
                          ELSE None
    IN  ProposeBlockWithCertificate([b EXCEPT !.last_certificate = None], proposer_hash,
                                    proposer_address, txns, seed, cert_to_attach)

(* Blockchain::verify_block: "true", "false" or "panic".  A previous_hash  *)
(* that differs from the hash of the last block is logged and nothing else *)
VerifyBlock(b, block) ==
    IF block.id = 1 THEN "true"
    ELSE IF b.chain = <<>> THEN "panic"
    ELSE IF block.proposer_address \notin DOMAIN b.validator.hash_chain_com THEN "panic"
    ELSE IF VerifyPanics(b.epoch.timestamp, block.proposer_hash, FALSE) THEN "panic"
    ELSE IF ~VerifyHashChainIndex(
                 b.validator.hash_chain_com[block.proposer_address].hash_chain_index,
                 b.epoch.timestamp, block.proposer_hash)
         THEN "false"
    ELSE "true"

(* State::transfer *)
Transfer(state, from, to, amount) ==
    LET debited == IF from \in DOMAIN state.balances
                   THEN [state EXCEPT !.balances[from] = @ - amount] ELSE state
    IN  IF to \in DOMAIN debited.balances
        THEN [debited EXCEPT !.balances[to] = @ + amount] ELSE debited

(* Blockchain::handle_transaction *)
HandleTransaction(b, transaction) ==
    IF transaction.txn_type = "TRANSACTION"
    THEN IF TxnVerify(transaction)
         THEN [b EXCEPT !.state = Transfer(@, transaction.sender, transaction.recipient,
                                           transaction.amount)]
         ELSE b
    ELSE IF transaction.txn_type = "STAKE"
    THEN IF TxnVerify(transaction)
         THEN [b EXCEPT !.buffer = [accounts |-> Append(@.accounts, transaction.sender),
                                    txns |-> Append(@.txns, transaction)]]
         ELSE b
    ELSE b

RECURSIVE HandleTransactions(_, _, _)
HandleTransactions(b, txn, i) ==
    IF i > Len(txn) THEN b
    ELSE HandleTransactions(IF TxnVerify(txn[i]) THEN HandleTransaction(b, txn[i]) ELSE b,
                            txn, i + 1)

(* Mempool::delete_transaction for every transaction of the block *)
RECURSIVE Retain(_, _)
Retain(transactions, hashes) ==
    IF transactions = <<>> THEN <<>>
    ELSE IF transactions[1].hash \in hashes THEN Retain(Tail(transactions), hashes)
    ELSE <<transactions[1]>> \o Retain(Tail(transactions), hashes)

(* Blockchain::execute_block *)
ExecuteBlock(b, block) ==
    IF block.txn = <<>> THEN [b EXCEPT !.chain = Append(@, block)]
    ELSE LET handled == HandleTransactions(b, block.txn, 1)
         IN  [handled EXCEPT !.chain = Append(@, block),
                             !.mempool = Retain(@, {block.txn[i].hash : i \in 1..Len(block.txn)})]

(* Blockchain::block_exists *)
BlockExists(b, block) == \E i \in 1..Len(b.chain) : b.chain[i].id = block.id

(* Epoch::is_end_of_epoch, Blockchain::end_of_epoch *)
IsEndOfEpoch(b) == b.epoch.timestamp >= EPOCH_DURATION
EndOfEpoch(b) ==
    [b EXCEPT !.validator = ApplyBuffer(@, b.buffer.accounts, b.buffer.txns, 1),
              !.buffer = [accounts |-> <<>>, txns |-> <<>>],
              !.epoch.timestamp = 0]

(* a faulty get_next_seed that hands on the seed of the last block without *)
(* the proposer's reveal                                                   *)
GetNextSeedNoReveal(b) ==
    IF b.chain # <<>> THEN Last(b.chain).seed
    ELSE NewEpochSeed(b.validator)

(* Blockchain::get_next_seed *)
GetNextSeed(b) ==
    IF b.chain # <<>> THEN GetBlockSeed(Last(b.chain).proposer_hash, Last(b.chain).seed)
    ELSE NewEpochSeed(b.validator)

-----------------------------------------------------------------------------
(***************************************************************************)
(* main.rs and p2p.rs: the handlers of one node.  Each returns the node    *)
(* after the handler and what the handler publishes.                       *)
(***************************************************************************)
(* Mempool::get_transactions(limit): split_off takes from the end *)
GetTransactionsCount(mempool, limit) == Min(limit, Len(mempool))
GetTransactions(mempool, limit) ==
    SubSeq(mempool, Len(mempool) - GetTransactionsCount(mempool, limit) + 1, Len(mempool))

(* handle_block_proposal(blockchain, seed) *)
HandleBlockProposal(b, seed) ==
    IF SelectPanics(b.validator)
    THEN [node |-> Crash(b), blocks |-> {}, epoch_event |-> FALSE]
    ELSE IF SelectBlockProposer(seed, b.validator) # b.wallet
    THEN [node |-> b, blocks |-> {}, epoch_event |-> FALSE]
    ELSE IF ~GetHashInRange(b.hash_chain, RevealIndex(b.epoch.timestamp))
    THEN [node |-> Crash(b), blocks |-> {}, epoch_event |-> FALSE]
    ELSE LET hash_chain_index == GetHash(b.hash_chain, RevealIndex(b.epoch.timestamp))
             txns_to_include == GetTransactions(b.mempool, MAX_TXNS_PER_BLOCK)
             drained == [b EXCEPT !.mempool =
                            SubSeq(@, 1, Len(@) - GetTransactionsCount(@, MAX_TXNS_PER_BLOCK))]
             proposed == ProposeBlock(drained, hash_chain_index, b.wallet,
                                      txns_to_include, seed)
             executed == ExecuteBlock(proposed.node, proposed.block)
         IN  IF proposed.node.crashed
             THEN [node |-> proposed.node, blocks |-> {}, epoch_event |-> FALSE]
             ELSE [node |-> [executed EXCEPT !.epoch.timestamp = @ + 1],
                   blocks |-> {proposed.block}, epoch_event |-> FALSE]

(* a faulty Mining event that runs the election at every slot and never    *)
(* rolls the epoch over                                                    *)
MiningEverySlot(b) ==
    IF b.epoch.timestamp = 1 THEN HandleBlockProposal(b, NewEpochSeed(b.validator))
    ELSE HandleBlockProposal(b, GetNextSeed(b))

(* EventType::Mining, with enough peers connected *)
Mining(b) ==
    IF b.epoch.timestamp = 1 THEN HandleBlockProposal(b, NewEpochSeed(b.validator))
    ELSE IF b.epoch.timestamp % EPOCH_DURATION # 0
    THEN HandleBlockProposal(b, GetNextSeed(b))
    ELSE [node |-> EndOfEpoch(b), blocks |-> {}, epoch_event |-> TRUE]

(* EventType::Epoch: a new hash chain from a fresh nonce *)
HashChainCom(hash_chain_index, sender) ==
    [hash_chain_index |-> hash_chain_index, sender |-> sender]
Epoch(b, nonce) ==
    LET hash_chain == HashChainNew(nonce)
        hash_chain_message == HashChainCom(Commitment(hash_chain), b.wallet)
    IN  [node |-> [b EXCEPT !.validator = UpdateValidatorCom(@, b.wallet, hash_chain_message),
                            !.epoch.timestamp = @ + 1,
                            !.hash_chain = hash_chain],
         com |-> hash_chain_message]

(* Mempool::txn_exists *)
TxnExists(mempool, hash) == \E i \in 1..Len(mempool) : mempool[i].hash = hash

(* a Transaction from RPC or gossip: stored and relayed when new *)
AcceptsTransaction(b, txn) == TxnVerify(txn) /\ ~TxnExists(b.mempool, txn.hash)
AddTransaction(b, txn) ==
    IF AcceptsTransaction(b, txn) THEN [b EXCEPT !.mempool = Append(@, txn)] ELSE b

(* process_message, a Block *)
ProcessBlock(b, block) ==
    LET verdict == VerifyBlock(b, block)
        executed == IF ~BlockExists(b, block)
                    THEN [ExecuteBlock(b, block) EXCEPT !.epoch.timestamp = @ + 1]
                    ELSE b
        already_signed ==
            /\ block.id \in DOMAIN b.pending_signatures
            /\ \E i \in 1..Len(b.pending_signatures[block.id]) :
                  b.pending_signatures[block.id][i].sender = b.wallet
        after == IF verdict = "true" THEN executed ELSE b
    IN  IF verdict = "panic" THEN [node |-> Crash(b), sigs |-> {}]
        ELSE [node |-> IF IsEndOfEpoch(after) THEN EndOfEpoch(after) ELSE after,
              sigs |-> IF verdict = "true" /\ ~already_signed
                       THEN {BlockSignature(b, block)} ELSE {}]

(* process_message, a Genesis *)
ProcessGenesis(b, genesis) ==
    [b EXCEPT !.validator = AddValidator(@, genesis.stake_txn.recipient, genesis.stake_txn)]

(* process_message, a HashChainCom *)
ProcessHashChainCom(b, msg) ==
    [b EXCEPT !.validator = UpdateValidatorCom(@, msg.sender, msg)]

-----------------------------------------------------------------------------
(***************************************************************************)
(* Spec: NumNodes nodes.  A published message stays in net and may be      *)
(* delivered to any other node at any time, any number of times.  Every    *)
(* node gets its Genesis timer event, then its Epoch timer event, then up  *)
(* to MaxTicks Mining ticks; a tick met with too few peers does nothing    *)
(* and is not an action.  Mining runs only when no Epoch event is queued.  *)
(* A block message carries, besides the block, the epoch number and the    *)
(* slot its proposer was in, which the program does not send.              *)
(***************************************************************************)
NumNodes == 2
MaxTicks == 2
NumTxns == 1
Nodes == 1..NumNodes

(* the transactions users hand to the RPC server: a stake of user h *)
UserTxn(h) == Transaction(h, h, h, STAKING_AMOUNT, "STAKE")
UserTxns == {UserTxn(h) : h \in 1..NumTxns}

(* the stake transaction of the Genesis event of node n *)
GenesisTxn(n) == Transaction(1000 + n, WalletNew, WalletNew, 100, "STAKE")

(* the nonce node n draws for its k-th hash chain *)
NonceOf(n, k) == 10 * n + k

Message(type, src, body) == [type |-> type, src |-> src, body |-> body, epoch |-> 0, slot |-> 0]
BlockMessage(src, block, epoch, slot) ==
    [type |-> "block", src |-> src, body |-> block, epoch |-> epoch, slot |-> slot]

NoEvents == [genesis |-> TRUE, epoch |-> 1, ticks |-> 0, epoch_no |-> 0]

Init ==
    /\ bc = [n \in Nodes |-> BlockchainNew(WalletNew)]
    /\ events = [n \in Nodes |-> NoEvents]
    /\ net = {}
    /\ hc = IdleHashChain
    /\ builder = IdleBuilder
    /\ cert = NoCert
    /\ call = NoCall

Alive(n) == ~bc[n].crashed

(* EventType::Genesis *)
GenesisEvent(n) ==
    /\ Alive(n)
    /\ events[n].genesis
    /\ events' = [events EXCEPT ![n].genesis = FALSE]
    /\ net' = net \cup {Message("genesis", n, [stake_txn |-> GenesisTxn(n)])}
    /\ UNCHANGED <<bc, hc, builder, cert, call>>

(* EventType::Epoch *)
EpochEvent(n) ==
    /\ Alive(n)
    /\ ~events[n].genesis
    /\ events[n].epoch > 0
    /\ LET r == Epoch(bc[n], NonceOf(n, events[n].epoch_no))
       IN  /\ bc' = [bc EXCEPT ![n] = r.node]
           /\ net' = net \cup {Message("hash_chain_com", n, r.com)}
    /\ events' = [events EXCEPT ![n].epoch = @ - 1, ![n].epoch_no = @ + 1]
    /\ UNCHANGED <<hc, builder, cert, call>>

(* EventType::Mining *)
MiningEvent(n) ==
    /\ Alive(n)
    /\ ~events[n].genesis
    /\ events[n].epoch = 0
    /\ events[n].ticks < MaxTicks
    /\ LET r == Mining(bc[n])
       IN  /\ bc' = [bc EXCEPT ![n] = After(r.node, "Mining")]
           /\ net' = net \cup {BlockMessage(n, block, events[n].epoch_no,
                                            bc[n].epoch.timestamp) : block \in r.blocks}
           /\ events' = [events EXCEPT ![n].ticks = @ + 1,
                                       ![n].epoch = IF r.epoch_event THEN @ + 1 ELSE @]
    /\ UNCHANGED <<hc, builder, cert, call>>

(* EventType::RpcTransaction: a user hands a transaction to one node, once *)
RpcTransaction(n) ==
    /\ Alive(n)
    /\ \E txn \in UserTxns :
        /\ \A m \in net : m.type = "transaction" => m.body # txn
        /\ bc' = [bc EXCEPT ![n] = AddTransaction(@, txn)]
        /\ net' = IF AcceptsTransaction(bc[n], txn)
                  THEN net \cup {Message("transaction", n, txn)} ELSE net
    /\ UNCHANGED <<events, hc, builder, cert, call>>

Inbox(n, type) == {m \in net : m.type = type /\ m.src # n}

ReceiveGenesis(n) ==
    /\ Alive(n)
    /\ \E m \in Inbox(n, "genesis") : bc' = [bc EXCEPT ![n] = ProcessGenesis(@, m.body)]
    /\ UNCHANGED <<events, net, hc, builder, cert, call>>

ReceiveTransaction(n) ==
    /\ Alive(n)
    /\ \E m \in Inbox(n, "transaction") :
        /\ bc' = [bc EXCEPT ![n] = AddTransaction(@, m.body)]
        /\ net' = IF AcceptsTransaction(bc[n], m.body)
                  THEN net \cup {Message("transaction", n, m.body)} ELSE net
    /\ UNCHANGED <<events, hc, builder, cert, call>>

ReceiveBlock(n) ==
    /\ Alive(n)
    /\ \E m \in Inbox(n, "block") :
        LET r == ProcessBlock(bc[n], m.body)
        IN  /\ bc' = [bc EXCEPT ![n] = After(r.node, "process_message")]
            /\ net' = net \cup {Message("block_signature", n, sig) : sig \in r.sigs}
    /\ UNCHANGED <<events, hc, builder, cert, call>>

ReceiveHashChainCom(n) ==
    /\ Alive(n)
    /\ \E m \in Inbox(n, "hash_chain_com") :
        bc' = [bc EXCEPT ![n] = ProcessHashChainCom(@, m.body)]
    /\ UNCHANGED <<events, net, hc, builder, cert, call>>

ReceiveBlockSignature(n) ==
    /\ Alive(n)
    /\ \E m \in Inbox(n, "block_signature") :
        bc' = [bc EXCEPT ![n] = After(CollectBlockSignature(@, m.body), "process_message")]
    /\ UNCHANGED <<events, net, hc, builder, cert, call>>

Next ==
    \E n \in Nodes :
        \/ GenesisEvent(n)
        \/ EpochEvent(n)
        \/ MiningEvent(n)
        \/ RpcTransaction(n)
        \/ ReceiveGenesis(n)
        \/ ReceiveTransaction(n)
        \/ ReceiveBlock(n)
        \/ ReceiveHashChainCom(n)
        \/ ReceiveBlockSignature(n)

Spec == Init /\ [][Next]_vars

-----------------------------------------------------------------------------
(***************************************************************************)
(* SpecEpochs: the same network, entered when node 1 has already run one   *)
(* epoch with earlier peers: its Genesis and Epoch events, and             *)
(* EPOCH_DURATION - 1 Mining ticks that each proposed a block, then the    *)
(* tick that ends the epoch and queues the next Epoch event.  The state of *)
(* node 1 is computed with the handlers above.  Gossip is not replayed:    *)
(* what node 1 published before the other nodes joined does not reach      *)
(* them, so net starts empty.                                              *)
(***************************************************************************)
RECURSIVE MineAlone(_, _)
MineAlone(b, ticks) ==
    IF ticks = 0 THEN b ELSE MineAlone(Mining(b).node, ticks - 1)

AfterOneEpoch ==
    Mining(MineAlone(Epoch(BlockchainNew(WalletNew), NonceOf(1, 0)).node,
                     EPOCH_DURATION - 1)).node

InitEpochs ==
    /\ bc = [n \in Nodes |-> IF n = 1 THEN AfterOneEpoch ELSE BlockchainNew(WalletNew)]
    /\ events = [n \in Nodes |->
                    IF n = 1 THEN [genesis |-> FALSE, epoch |-> 1, ticks |-> 0, epoch_no |-> 1]
                    ELSE NoEvents]
    /\ net = {}
    /\ hc = IdleHashChain
    /\ builder = IdleBuilder
    /\ cert = NoCert
    /\ call = NoCall

SpecEpochs == InitEpochs /\ [][Next]_vars

-----------------------------------------------------------------------------
(***************************************************************************)
(* Properties of the network                                               *)
(***************************************************************************)
(* C1: for every epoch and slot, at most one node elects itself and        *)
(* proposes a block.                                                       *)
C1_OneProposerPerSlot ==
    \A m1, m2 \in net :
        (/\ m1.type = "block" /\ m2.type = "block"
         /\ m1.epoch = m2.epoch /\ m1.slot = m2.slot)
        => m1.src = m2.src

(* C2: the block ids of every node's chain are exactly 1, 2, 3, ... in     *)
(* order, with no gap and no repeated id.                                  *)
C2_ChainIdsConsecutive ==
    \A n \in Nodes : \A i \in 1..Len(bc[n].chain) : bc[n].chain[i].id = i

(* C3: a block with id other than 1 whose previous_hash differs from the   *)
(* hash of the last block of the chain is rejected by verify_block, so     *)
(* such a block is never appended.                                         *)
C3_PreviousHashChecked ==
    \A n \in Nodes : \A i \in 2..Len(bc[n].chain) :
        bc[n].chain[i].id # 1 => bc[n].chain[i].previous_hash = bc[n].chain[i - 1].hash
(* the block node n proposes in a step, when the step is a Mining tick of  *)
(* n that appends a block to its chain                                     *)
Proposes(n) ==
    /\ events'[n].ticks = events[n].ticks + 1
    /\ Len(bc'[n].chain) = Len(bc[n].chain) + 1

(* C11: a proposed block carries a certificate only when the stored        *)
(* last_certificate was built for the id of the last block of the chain,   *)
(* a stored certificate for another id is dropped, and the proposal        *)
(* consumes the stored certificate: what is stored afterwards, if          *)
(* anything, was built for the new block.                                  *)
C11_CertificateForPreviousBlock ==
    [][\A n \in DOMAIN bc :
         Proposes(n) =>
            LET block == Last(bc'[n].chain)
                last_block_id == IF bc[n].chain = <<>> THEN 0 ELSE Last(bc[n].chain).id
                stored == bc[n].last_certificate
            IN  /\ IsSome(block.certificate) =>
                       /\ IsSome(stored)
                       /\ Unwrap(stored)[1] = last_block_id
                       /\ block.certificate = Some(Unwrap(stored)[2])
                /\ (IsSome(stored) /\ Unwrap(stored)[1] # last_block_id) =>
                       block.certificate = None
                /\ IsSome(bc'[n].last_certificate) =>
                       Unwrap(bc'[n].last_certificate)[1] = block.id]_vars

C11_Witness ==
    \E m1, m2 \in net :
        /\ m1.type = "block" /\ m2.type = "block" /\ m1.src = m2.src
        /\ IsSome(m1.body.certificate)
        /\ m2.body.id >= 2 /\ ~IsSome(m2.body.certificate)
(* C13: handling an inbound gossip message never crashes the node; a       *)
(* message that cannot be applied is dropped.                              *)
C13_GossipNeverCrashes ==
    \A n \in Nodes : bc[n].panicked_in # "process_message"

-----------------------------------------------------------------------------
(***************************************************************************)
(* SpecCollect: one node that has proposed block 1 and collects the block  *)
(* signatures gossip brings.  Its validator set holds itself and the       *)
(* validators whose Genesis messages it has processed.  net holds the      *)
(* BlockSignature messages published for it: one by every other validator  *)
(* for the proposed block, and others: by a node that is not in the        *)
(* validator set, by a node that runs with the same wallet, for another    *)
(* block id, and for another block with the same id.  They are delivered   *)
(* one at a time, each once, in any order.  events records what was        *)
(* delivered, whether a certificate for the proposed block was ever        *)
(* stored, the signatures pushed on a pending list (block id and sender)   *)
(* and the certificate builds that were attempted.                         *)
(***************************************************************************)
MaxValidators == 2
Outsider == 9

(* the validators besides the node itself: 1, or 1 and 2, ... *)
OtherValidators == {[i \in 1..k |-> i] : k \in 0..MaxValidators}

RECURSIVE ProcessGenesisOf(_, _, _)
ProcessGenesisOf(b, others, i) ==
    IF i > Len(others) THEN b
    ELSE ProcessGenesisOf(
             ProcessGenesis(b, [stake_txn |-> Transaction(1000 + others[i], others[i],
                                                          others[i], 100, "STAKE")]),
             others, i + 1)

(* the node after its Epoch event and the Genesis messages of the others *)
Elected(others) ==
    ProcessGenesisOf(Epoch(BlockchainNew(WalletNew), NonceOf(1, 0)).node, others, 1)

(* the proposal of block 1 as handle_block_proposal makes it when elected *)
Proposal(others) ==
    ProposeBlock(Elected(others),
                 GetHash(Elected(others).hash_chain, RevealIndex(Elected(others).epoch.timestamp)),
                 Elected(others).wallet, <<>>, NewEpochSeed(Elected(others).validator))

(* the node after the proposal of block 1 *)
Proposer(others) ==
    [ExecuteBlock(Proposal(others).node, Proposal(others).block) EXCEPT !.epoch.timestamp = @ + 1]

(* the BlockSignature a node with address sender publishes for a block *)
BlockSignatureOf(sender, block_id, block_hash) ==
    [block_id |-> block_id, block_hash |-> block_hash, sender |-> sender,
     signature |-> Sign(sender, block_hash)]

ProposedBlock == Last(bc[1].chain)
StoredFor(b, block_id) ==
    IsSome(b.last_certificate) /\ Unwrap(b.last_certificate)[1] = block_id

(* the loop of collect_block_signature over the collected signatures: the  *)
(* positions add_signature is called with, in the order of the calls       *)
RECURSIVE AddSignatureOrder(_, _, _)
AddSignatureOrder(participants, collected_sigs, i) ==
    IF i > Len(collected_sigs) THEN <<>>
    ELSE LET found == {k \in 1..Len(participants) :
                          participants[k].public_key = collected_sigs[i].sender}
         IN  IF found = {} THEN AddSignatureOrder(participants, collected_sigs, i + 1)
             ELSE <<(CHOOSE k \in found : \A j \in found : k <= j) - 1>>
                  \o AddSignatureOrder(participants, collected_sigs, i + 1)

(* what collect_block_signature(block_sig) does on node b, added to the    *)
(* record: the signature it pushes on a pending list, and the build it     *)
(* attempts, with the senders pending for the block, the Params of the     *)
(* builder and the positions handed to add_signature                       *)
Recorded(ev, b, block_sig) ==
    LET sigs == PendingAfter(b, block_sig)
        pushed == block_sig.block_id \notin DOMAIN b.pending_signatures
                  \/ sigs # b.pending_signatures[block_sig.block_id]
        should_build == Len(sigs) >= Len(b.validator.state.accounts)
        attempt == [block_id |-> sigs[1].block_id,
                    senders |-> [i \in 1..Len(sigs) |-> sigs[i].sender],
                    validator |-> b.validator,
                    params |-> CertParams(b, sigs[1].block_hash),
                    order |-> AddSignatureOrder(Participants(b.validator), sigs, 1)]
    IN  [ev EXCEPT !.stored = IF pushed
                              THEN Append(@, <<block_sig.block_id, block_sig.sender>>) ELSE @,
                   !.attempts = IF should_build THEN Append(@, attempt) ELSE @]

InitCollect ==
    /\ \E others \in OtherValidators :
        /\ bc = <<Proposer(others)>>
        /\ net = {BlockSignatureOf(others[i], 1, ZeroHash) : i \in 1..Len(others)}
                  \cup {BlockSignatureOf(Outsider, 1, ZeroHash),
                        BlockSignatureOf(Outsider, 2, ZeroHash),
                        BlockSignatureOf(1, 2, ZeroHash),
                        BlockSignatureOf(1, 1, <<Outsider>>),
                        BlockSignatureOf(WalletNew, 1, ZeroHash)}
        /\ events = Recorded([delivered |-> {}, built |-> StoredFor(Proposer(others), 1),
                              stored |-> <<>>, attempts |-> <<>>],
                             [Elected(others) EXCEPT !.last_certificate = None],
                             BlockSignature(Elected(others), Proposal(others).block))
    /\ hc = IdleHashChain
    /\ builder = IdleBuilder
    /\ cert = NoCert
    /\ call = NoCall

(* process_message, a BlockSignature *)
DeliverBlockSignature ==
    /\ ~bc[1].crashed
    /\ \E m \in net \ events.delivered :
        LET after == After(CollectBlockSignature(bc[1], m), "process_message")
        IN  /\ bc' = <<after>>
            /\ events' = [Recorded(events, bc[1], m) EXCEPT
                              !.delivered = @ \cup {m},
                              !.built = @ \/ StoredFor(after, ProposedBlock.id)]
    /\ UNCHANGED <<net, hc, builder, cert, call>>

NextCollect == DeliverBlockSignature

SpecCollect == InitCollect /\ [][NextCollect]_vars

(* the signatures for the proposed block of all validators but the node,   *)
(* whose own signature propose_block_with_certificate has collected        *)
ValidatorSignatures ==
    {BlockSignatureOf(bc[1].validator.state.accounts[i], ProposedBlock.id, ProposedBlock.hash) :
        i \in 2..Len(bc[1].validator.state.accounts)}

(* C12: once the signatures of every validator for the proposed block have *)
(* been collected, in any order and with other block signatures in         *)
(* between, a certificate has been built and stored for that block.        *)
C12_AllSignaturesBuildCertificate ==
    ValidatorSignatures \subseteq events.delivered => events.built

-----------------------------------------------------------------------------
(***************************************************************************)
(* SpecEpochEnd: the same network, entered when node 1 has proposed the    *)
(* last block of its first epoch (its Epoch event and EPOCH_DURATION - 1   *)
(* Mining ticks) and the Mining tick that ends the epoch is still to come. *)
(***************************************************************************)
BeforeEpochEnd ==
    MineAlone(Epoch(BlockchainNew(WalletNew), NonceOf(1, 0)).node, EPOCH_DURATION - 1)

InitEpochEnd ==
    /\ bc = [n \in Nodes |-> IF n = 1 THEN BeforeEpochEnd ELSE BlockchainNew(WalletNew)]
    /\ events = [n \in Nodes |->
                    IF n = 1 THEN [genesis |-> FALSE, epoch |-> 0, ticks |-> 0, epoch_no |-> 1]
                    ELSE NoEvents]
    /\ net = {}
    /\ hc = IdleHashChain
    /\ builder = IdleBuilder
    /\ cert = NoCert
    /\ call = NoCall

SpecEpochEnd == InitEpochEnd /\ [][Next]_vars

(* node n handles the block message m in this step *)
HandlesBlock(n, m) ==
    /\ Alive(n)
    /\ m \in Inbox(n, "block")
    /\ bc' = [bc EXCEPT ![n] = After(ProcessBlock(bc[n], m.body).node, "process_message")]
    /\ net' = net \cup {Message("block_signature", n, sig) :
                            sig \in ProcessBlock(bc[n], m.body).sigs}
    /\ events' = events

(* C14: when verify_block rejects a received block, the node does not      *)
(* append, sign or relay it, and handling the message leaves its chain,    *)
(* balances, validator set, staking buffer, mempool and slot_in_epoch as   *)
(* they were.                                                              *)
C14_RejectedBlockChangesNothing ==
    [][\A n \in Nodes : \A m \in net :
         (HandlesBlock(n, m) /\ VerifyBlock(bc[n], m.body) = "false") =>
            /\ ProcessBlock(bc[n], m.body).sigs = {}
            /\ net' = net
            /\ bc'[n].chain = bc[n].chain
            /\ bc'[n].state = bc[n].state
            /\ bc'[n].validator = bc[n].validator
            /\ bc'[n].buffer = bc[n].buffer
            /\ bc'[n].mempool = bc[n].mempool
            /\ bc'[n].epoch = bc[n].epoch]_vars

-----------------------------------------------------------------------------
(***************************************************************************)
(* SpecStaking: one node across its epochs.  Blocks it executes carry      *)
(* stake transactions, which handle_stake puts in the staking buffer; the  *)
(* slot progresses; and end_of_epoch runs where the program calls it, at   *)
(* the Mining tick of a slot that is a multiple of EPOCH_DURATION or after *)
(* a block received at a slot of EPOCH_DURATION or more.  events holds the *)
(* operation that ran last.                                                *)
(***************************************************************************)
MaxBuffer == 2
MaxStakers == 1

(* stake transactions: by the node itself, which Blockchain::new made a    *)
(* validator, and by other accounts, for less than STAKING_AMOUNT, for     *)
(* STAKING_AMOUNT and for twice as much                                    *)
StakeAmounts == {STAKING_AMOUNT \div 2, STAKING_AMOUNT, 2 * STAKING_AMOUNT}
StakeTxns ==
    {Transaction(2000 + 1000 * sender + amount, sender, sender, amount, "STAKE") :
        sender \in 0..MaxStakers, amount \in StakeAmounts}

InitStaking ==
    /\ bc = <<Epoch(BlockchainNew(WalletNew), NonceOf(1, 0)).node>>
    /\ events = [op |-> "epoch"]
    /\ net = {}
    /\ hc = IdleHashChain
    /\ builder = IdleBuilder
    /\ cert = NoCert
    /\ call = NoCall

(* execute_block on a block holding a stake transaction *)
ExecuteStake ==
    /\ Len(bc[1].buffer.txns) < MaxBuffer
    /\ \E txn \in StakeTxns : bc' = <<HandleTransactions(bc[1], <<txn>>, 1)>>
    /\ events' = [op |-> "execute_block"]
    /\ UNCHANGED <<net, hc, builder, cert, call>>

(* Epoch::progress *)
Progress ==
    /\ bc[1].epoch.timestamp < EPOCH_DURATION
    /\ bc' = <<[bc[1] EXCEPT !.epoch.timestamp = @ + 1]>>
    /\ events' = [op |-> "progress"]
    /\ UNCHANGED <<net, hc, builder, cert, call>>

(* Blockchain::end_of_epoch *)
RunEndOfEpoch ==
    /\ bc[1].epoch.timestamp % EPOCH_DURATION = 0 \/ IsEndOfEpoch(bc[1])
    /\ bc' = <<EndOfEpoch(bc[1])>>
    /\ events' = [op |-> "end_of_epoch"]
    /\ UNCHANGED <<net, hc, builder, cert, call>>

NextStaking == ExecuteStake \/ Progress \/ RunEndOfEpoch

SpecStaking == InitStaking /\ [][NextStaking]_vars

(* the stake of an account in a validator state, 0 when it has none *)
StakeOf(validator, account) ==
    IF account \in DOMAIN validator.state.balances
    THEN validator.state.balances[account] ELSE 0

(* the amounts the buffered transactions of an account add up to *)
RECURSIVE BufferedAmount(_, _, _)
BufferedAmount(buffer, account, i) ==
    IF i > Len(buffer.txns) THEN 0
    ELSE (IF buffer.accounts[i] = account THEN buffer.txns[i].amount ELSE 0)
         + BufferedAmount(buffer, account, i + 1)

(* C15: when end_of_epoch runs, the sender of every buffered stake         *)
(* transaction is in the validator sequence and its stake has grown by the *)
(* amount staked, the buffer is left empty and slot_in_epoch is 0.         *)
C15_EndOfEpochCreditsStakes ==
    [][events'.op = "end_of_epoch" =>
         /\ \A i \in 1..Len(bc[1].buffer.txns) :
               LET sender == bc[1].buffer.accounts[i]
               IN  /\ sender \in Range(bc'[1].validator.state.accounts)
                   /\ StakeOf(bc'[1].validator, sender)
                         = StakeOf(bc[1].validator, sender)
                           + BufferedAmount(bc[1].buffer, sender, 1)
         /\ bc'[1].buffer = [accounts |-> <<>>, txns |-> <<>>]
         /\ bc'[1].epoch.timestamp = 0]_vars

-----------------------------------------------------------------------------
(***************************************************************************)
(* SpecValidators: two nodes near the end of an epoch.  Users have staked; *)
(* each node executes blocks that carry one of the stake transactions      *)
(* each, in the order its chain has them, and ends the epoch after the     *)
(* block that takes its slot to EPOCH_DURATION, as process_message does.   *)
(* events holds, per node, the stake transactions it has processed.        *)
(***************************************************************************)
NumStakers == 3
TwoNodes == 1..2

StakeOfUser(user) == Transaction(3000 + user, user, user, STAKING_AMOUNT, "STAKE")

(* a node that has mined alone until NumStakers slots are left *)
BeforeStakes ==
    MineAlone(Epoch(BlockchainNew(WalletNew), NonceOf(1, 0)).node,
              EPOCH_DURATION - 1 - NumStakers)

InitValidators ==
    /\ bc = [n \in TwoNodes |-> BeforeStakes]
    /\ events = [n \in TwoNodes |-> {}]
    /\ net = {StakeOfUser(user) : user \in 1..NumStakers}
    /\ hc = IdleHashChain
    /\ builder = IdleBuilder
    /\ cert = NoCert
    /\ call = NoCall

(* process_message on a verified block that carries txn: execute_block,    *)
(* epoch.progress and end_of_epoch when the epoch is over                  *)
ExecuteStakeBlock(b, txn) ==
    LET block == BlockNew(Last(b.chain).id + 1, Last(b.chain).hash, Last(b.chain).timestamp,
                          <<txn>>, WalletNew, Last(b.chain).proposer_hash,
                          Last(b.chain).seed, None)
        executed == [ExecuteBlock(b, block) EXCEPT !.epoch.timestamp = @ + 1]
    IN  IF IsEndOfEpoch(executed) THEN EndOfEpoch(executed) ELSE executed

ReceiveStakeBlock(n) ==
    /\ \E txn \in net \ events[n] :
        /\ bc' = [bc EXCEPT ![n] = ExecuteStakeBlock(@, txn)]
        /\ events' = [events EXCEPT ![n] = @ \cup {txn}]
    /\ UNCHANGED <<net, hc, builder, cert, call>>

NextValidators == \E n \in TwoNodes : ReceiveStakeBlock(n)

SpecValidators == InitValidators /\ [][NextValidators]_vars

(* C16: two nodes that have processed the same set of genesis and stake    *)
(* transactions hold the same validator sequence, in the same order.       *)
C16_SameValidatorOrder ==
    \A n1, n2 \in TwoNodes :
        events[n1] = events[n2] =>
            bc[n1].validator.state.accounts = bc[n2].validator.state.accounts

-----------------------------------------------------------------------------
(***************************************************************************)
(* SpecElection: select_block_proposer as a function.  events holds the    *)
(* seed and the validator set it is called with: up to MaxElectors         *)
(* accounts in any order, each with a stake and with or without a stored   *)
(* commitment.  call holds the last call and what it returned: a plain     *)
(* call, or two calls that differ in the stake of one validator or in the  *)
(* order of two validators.                                                *)
(***************************************************************************)
MaxElectors == 2
ElectionStakes == {0, STAKING_AMOUNT, 2 * STAKING_AMOUNT, 3 * STAKING_AMOUNT}
ElectionComs == {HashChainCom(Commitment(HashChainNew(nonce)), 0) : nonce \in 1..2}
ElectionSeeds == {{}, {Commitment(HashChainNew(1))}}

(* the account sequences without repetition *)
ElectorLists ==
    {accounts \in UNION {[1..k -> 1..MaxElectors] : k \in 0..MaxElectors} :
        \A i, j \in 1..Len(accounts) : i # j => accounts[i] # accounts[j]}

(* select_block_proposer: the account returned, or a panic *)
SelectOutcome(seed, validator) ==
    IF SelectPanics(validator) THEN [kind |-> "panic", proposer |-> 0]
    ELSE [kind |-> "account", proposer |-> SelectBlockProposer(seed, validator)]

SwapAccounts(validator, i, j) ==
    [validator EXCEPT !.state.accounts =
        [k \in 1..Len(@) |-> IF k = i THEN @[j] ELSE IF k = j THEN @[i] ELSE @[k]]]

InitElection ==
    /\ \E accounts \in ElectorLists, seed \in ElectionSeeds :
        \E balances \in [Range(accounts) -> ElectionStakes] :
        \E with_com \in SUBSET Range(accounts) :
        \E coms \in [with_com -> ElectionComs] :
            events = [seed |-> seed,
                      validator |-> [state |-> [accounts |-> accounts, balances |-> balances],
                                     hash_chain_com |-> coms]]
    /\ call = [op |-> "none"]
    /\ bc = <<>>
    /\ net = {}
    /\ hc = IdleHashChain
    /\ builder = IdleBuilder
    /\ cert = NoCert

ESelect ==
    /\ call' = [op |-> "select_block_proposer",
                outcome |-> SelectOutcome(events.seed, events.validator)]
    /\ UNCHANGED <<events, bc, net, hc, builder, cert>>

(* the election before and after the stake of one validator is raised *)
ERaiseStake ==
    /\ \E account \in Range(events.validator.state.accounts), stake \in ElectionStakes :
        /\ stake > events.validator.state.balances[account]
        /\ LET raised == [events.validator EXCEPT !.state.balances[account] = stake]
           IN  call' = [op |-> "raise_stake", account |-> account,
                        weight_before |-> ProposerWeight(events.seed, events.validator, account),
                        weight_after |-> ProposerWeight(events.seed, raised, account),
                        before |-> SelectOutcome(events.seed, events.validator),
                        after |-> SelectOutcome(events.seed, raised)]
    /\ UNCHANGED <<events, bc, net, hc, builder, cert>>

(* the election before and after two validators change places *)
ESwap ==
    /\ \E i, j \in 1..Len(events.validator.state.accounts) :
        /\ i < j
        /\ call' = [op |-> "swap", i |-> i, j |-> j,
                    before |-> SelectOutcome(events.seed, events.validator),
                    after |-> SelectOutcome(events.seed, SwapAccounts(events.validator, i, j))]
    /\ UNCHANGED <<events, bc, net, hc, builder, cert>>

NextElection == ESelect \/ ERaiseStake \/ ESwap

SpecElection == InitElection /\ [][NextElection]_vars

(* C18: with the digest and the other validators fixed, the weight score   *)
(* of a validator does not increase when its stake increases, and a        *)
(* validator that is the elected proposer is still elected after its stake *)
(* is raised.                                                              *)
C18_StakeRaiseKeepsProposer ==
    call.op = "raise_stake" =>
        /\ ~WeightLess(call.weight_before, call.weight_after)
        /\ (call.before.kind = "account" /\ call.before.proposer = call.account) =>
               (call.after.kind = "account" /\ call.after.proposer = call.account)

(* a == b on f64 *)
WeightEqual(a, b) == a.kind # "nan" /\ b.kind # "nan" /\ ~WeightLess(a, b) /\ ~WeightLess(b, a)

(* the validators at positions i < j have equal stake and equal            *)
(* commitment, their score is minimal and no validator before i has it     *)
TiedFirst(seed, validator, i, j) ==
    LET accounts == validator.state.accounts
        w(k) == ProposerWeight(seed, validator, accounts[k])
    IN  /\ accounts[i] \in DOMAIN validator.hash_chain_com
        /\ accounts[j] \in DOMAIN validator.hash_chain_com
        /\ validator.hash_chain_com[accounts[i]].hash_chain_index
             = validator.hash_chain_com[accounts[j]].hash_chain_index
        /\ validator.state.balances[accounts[i]] = validator.state.balances[accounts[j]]
        /\ WeightEqual(w(i), w(j))
        /\ \A k \in 1..Len(accounts) : ~WeightLess(w(k), w(i))
        /\ \A k \in 1..(i - 1) : WeightLess(w(i), w(k))

(* C19: of validators with equal minimal weight scores (equal stake and    *)
(* equal commitment) select_block_proposer returns the one that comes      *)
(* first in the validator sequence, and when the tied validators change    *)
(* places the other one wins.                                              *)
C19_TieGoesToFirst ==
    (call.op = "swap" /\ TiedFirst(events.seed, events.validator, call.i, call.j)) =>
        /\ call.before.kind = "account"
        /\ call.before.proposer = events.validator.state.accounts[call.i]
        /\ call.after.kind = "account"
        /\ call.after.proposer = events.validator.state.accounts[call.j]

C19_Witness ==
    /\ call.op = "swap"
    /\ TiedFirst(events.seed, events.validator, call.i, call.j)
    /\ events.validator.state.balances[events.validator.state.accounts[call.i]] > 0
    /\ call.before.proposer = events.validator.state.accounts[call.i]
    /\ call.after.proposer # call.before.proposer

(* C20: called on an empty validator sequence, select_block_proposer       *)
(* yields a NoValidators error; it neither crashes nor returns an account. *)
C20_EmptySetIsNoValidators ==
    (call.op = "select_block_proposer" /\ events.validator.state.accounts = <<>>) =>
        call.outcome.kind = "NoValidators"

-----------------------------------------------------------------------------
(***************************************************************************)
(* SpecSlots: one node and a validator that stays silent.  The node has    *)
(* run its Epoch event and has processed the Genesis message and the       *)
(* commitment of another validator, which may publish a new commitment at  *)
(* any time and signs the blocks it receives, but never broadcasts a       *)
(* block.  The node gets up to MaxSlotTicks Mining ticks.  events holds    *)
(* the number of ticks and, for every tick, the slot the election was run  *)
(* for and the proposer it elected.                                        *)
(***************************************************************************)
MaxSlotTicks == 4
Silent == 5
SilentNonces == 30..32

(* the seed the Mining event hands to handle_block_proposal *)
MiningSeed(b) ==
    IF b.epoch.timestamp = 1 THEN NewEpochSeed(b.validator) ELSE GetNextSeed(b)

SilentCom(nonce) == HashChainCom(Commitment(HashChainNew(nonce)), Silent)

InitSlots ==
    /\ \E stake \in ElectionStakes \ {0}, nonce \in SilentNonces :
        bc = <<ProcessHashChainCom(
                 ProcessGenesis(Epoch(BlockchainNew(WalletNew), NonceOf(1, 0)).node,
                                [stake_txn |-> Transaction(1000 + Silent, Silent, Silent,
                                                           stake, "STAKE")]),
                 SilentCom(nonce))>>
    /\ events = <<[ticks |-> 0, elections |-> <<>>]>>
    /\ net = {}
    /\ hc = IdleHashChain
    /\ builder = IdleBuilder
    /\ cert = NoCert
    /\ call = NoCall

(* EventType::Mining *)
MiningTick ==
    /\ ~bc[1].crashed
    /\ events[1].ticks < MaxSlotTicks
    /\ bc[1].epoch.timestamp % EPOCH_DURATION # 0
    /\ LET r == Mining(bc[1])
       IN  /\ bc' = <<After(r.node, "Mining")>>
           /\ net' = net \cup {BlockMessage(1, block, 1, bc[1].epoch.timestamp) :
                                  block \in r.blocks}
    /\ events' = <<[ticks |-> events[1].ticks + 1,
                    elections |-> Append(events[1].elections,
                        [slot |-> bc[1].epoch.timestamp,
                         proposer |-> SelectBlockProposer(MiningSeed(bc[1]), bc[1].validator)])]>>
    /\ UNCHANGED <<hc, builder, cert, call>>

(* process_message, a HashChainCom of the silent validator *)
SilentCommits ==
    /\ ~bc[1].crashed
    /\ \E nonce \in SilentNonces : bc' = <<ProcessHashChainCom(bc[1], SilentCom(nonce))>>
    /\ UNCHANGED <<events, net, hc, builder, cert, call>>

(* process_message, a BlockSignature of the silent validator over a block  *)
(* of the node's chain                                                     *)
SilentSigns ==
    /\ ~bc[1].crashed
    /\ \E i \in 1..Len(bc[1].chain) :
        bc' = <<After(CollectBlockSignature(
                          bc[1], BlockSignatureOf(Silent, bc[1].chain[i].id, bc[1].chain[i].hash)),
                      "process_message")>>
    /\ UNCHANGED <<events, net, hc, builder, cert, call>>

NextSlots == MiningTick \/ SilentCommits \/ SilentSigns

SpecSlots == InitSlots /\ [][NextSlots]_vars

(* C17: when the proposer elected for a slot broadcasts no block, the      *)
(* chain does not grow and the election of the next Mining tick is run for *)
(* the next slot, not again for the unfilled one.                          *)
C17_NextTickElectsNextSlot ==
    \A k \in 1..(Len(events[1].elections) - 1) :
        events[1].elections[k].proposer # bc[1].wallet =>
            events[1].elections[k + 1].slot # events[1].elections[k].slot

-----------------------------------------------------------------------------
(***************************************************************************)
(* SpecSigning: one Builder over NumSigners participants that is handed    *)
(* signatures in every order and asked for the position of coins.  events  *)
(* is the sequence of the positions of the successful add_signature calls. *)
(***************************************************************************)
NumSigners == 3

SignerLists ==
    {[i \in 1..NumSigners |-> [public_key |-> KeyOf(i - 1), weight |-> w[i]]] :
        w \in [1..NumSigners -> Weights]}

InitSigning ==
    /\ \E participants \in SignerLists :
         builder = BuilderNew([msg |-> <<1>>,
                               proven_weight |-> TotalWeight(participants),
                               security_param |-> 128],
                              participants, MerkleRoot(participants))
    /\ events = <<>>
    /\ call = [op |-> "new"]
    /\ cert = NoCert
    /\ hc = IdleHashChain
    /\ bc = <<>> /\ net = {}

(* builder.add_signature(pos, signature) with the participant's signature *)
SAddSignature ==
    \E pos \in 0..NumSigners :
        /\ builder' = AddSignature(builder, pos, Sign(KeyOf(pos), builder.params.msg))
        /\ call' = [op |-> "add_signature", pos |-> pos,
                    result |-> AddSignatureResult(builder, pos)]
        /\ events' = IF AddSignatureResult(builder, pos) = "Ok"
                     THEN Append(events, pos) ELSE events
        /\ UNCHANGED <<cert, hc, bc, net>>

(* builder.find_coin_position(coin_value) *)
SFindCoinPosition ==
    \E coin_value \in 0..builder.signed_weight :
        /\ call' = [op |-> "find_coin_position", coin_value |-> coin_value,
                    result |-> FindCoinPosition(builder, coin_value)]
        /\ UNCHANGED <<builder, events, cert, hc, bc, net>>

NextSigning == SAddSignature \/ SFindCoinPosition

SpecSigning == InitSigning /\ [][NextSigning]_vars

(* the sum of the weights of the positions below pos (0-based) *)
WeightBelow(b, pos) == TotalWeight(b.participants) - SumWeights(b.participants, pos + 1)

(* the sum of the weights of the signed positions below pos (0-based) *)
SignedWeightBelow(b, pos) == SignedSum(b, 1) - SignedSum(b, pos + 1)

(* C21: when the signatures are added at positions 0, 1, 2, ... in         *)
(* ascending order with none left out, every slot that was signed holds as *)
(* accumulated_weight the sum of the weights of all positions below it.    *)
C21_AscendingAccumulatedWeights ==
    (\A k \in 1..Len(events) : events[k] = k - 1) =>
        \A k \in 1..Len(events) :
            builder.sigs[k].accumulated_weight = WeightBelow(builder, k - 1)

C21_Witness ==
    /\ events = <<0, 1, 2>>
    /\ call.op = "add_signature" /\ call.pos = 2 /\ call.result = "Ok"
    /\ builder.sigs[3].accumulated_weight
         = builder.participants[1].weight + builder.participants[2].weight
    /\ builder.participants[1].weight # builder.participants[2].weight

(* C26: after any sequence of successful add_signature calls, in any order *)
(* and with or without gaps, every signed slot holds as accumulated_weight *)
(* the sum of the weights of the signed positions below it.                *)
C26_AccumulatedWeightOfSigned ==
    \A i \in 1..Len(builder.sigs) :
        IsSome(builder.sigs[i].signature) =>
            builder.sigs[i].accumulated_weight = SignedWeightBelow(builder, i - 1)

(* C27: for a coin below signed_weight, find_coin_position returns the one *)
(* signed position p whose range holds the coin: the signed weight below p *)
(* is at most the coin and, with the weight of p added, above it.  It      *)
(* returns no unsigned position and no error.                              *)
C27_CoinFallsInReturnedRange ==
    (call.op = "find_coin_position" /\ call.coin_value < builder.signed_weight) =>
        /\ IsSome(call.result)
        /\ \A p \in 0..(Len(builder.sigs) - 1) :
              call.result = Some(p) <=>
                 /\ IsSome(builder.sigs[p + 1].signature)
                 /\ SignedWeightBelow(builder, p) <= call.coin_value
                 /\ call.coin_value
                      < SignedWeightBelow(builder, p) + builder.participants[p + 1].weight

C27_Witness ==
    /\ call.op = "find_coin_position"
    /\ events = <<2, 0>>
    /\ builder.participants[2].weight > 0
    /\ call.coin_value = builder.participants[1].weight
    /\ call.result = Some(2)

(* C22: for every coin below signed_weight, find_coin_position of a built  *)
(* certificate, which searches the certificate's reveals, returns the      *)
(* position that find_coin_position of the builder returns, which searches *)
(* all signed slots.                                                       *)
C22_CoinPositionsAgree ==
    cert.origin = "build" =>
        \A coin_value \in 0..(cert.c.signed_weight - 1) :
            CertFindCoinPosition(cert.c, coin_value) = FindCoinPosition(cert.from, coin_value)

C23_ProposerHasCommitment ==
    (call.op = "select_block_proposer" /\ events.validator.state.accounts # <<>>) =>
        LET validator == events.validator
            Eligible == {a \in Range(validator.state.accounts) :
                            /\ a \in DOMAIN validator.hash_chain_com
                            /\ a \in DOMAIN validator.state.balances}
        IN  /\ call.outcome.kind = "account"
            /\ call.outcome.proposer \in Range(validator.state.accounts)
            /\ Eligible # {} => call.outcome.proposer \in Eligible

(* the total stake of the validators from position i on *)
RECURSIVE TotalStake(_, _)
TotalStake(validator, i) ==
    IF i > Len(validator.state.accounts) THEN 0
    ELSE validator.state.balances[validator.state.accounts[i]] + TotalStake(validator, i + 1)

(* C24: a certificate build for a block is attempted only when signatures  *)
(* of at least as many pairwise distinct senders as there are validators   *)
(* are pending for it, with proven_weight the total stake of the validator *)
(* sequence and security_param 128; and a signature of the same sender for *)
(* the same block is not stored a second time.                             *)
C24_BuildAtFullParticipation ==
    /\ \A k \in 1..Len(events.attempts) :
          LET attempt == events.attempts[k]
          IN  /\ \A i, j \in 1..Len(attempt.senders) :
                    i # j => attempt.senders[i] # attempt.senders[j]
              /\ Len(attempt.senders) >= Len(attempt.validator.state.accounts)
              /\ attempt.params.proven_weight = TotalStake(attempt.validator, 1)
              /\ attempt.params.security_param = 128
    /\ \A i, j \in 1..Len(events.stored) : i # j => events.stored[i] # events.stored[j]

(* C25: collect_block_signature hands the collected signatures to          *)
(* add_signature in ascending order of participant position, whatever the  *)
(* order they arrived in.                                                  *)
C25_SignaturesAddedAscending ==
    \A k \in 1..Len(events.attempts) :
        \A i, j \in 1..Len(events.attempts[k].order) :
            i < j => events.attempts[k].order[i] < events.attempts[k].order[j]

-----------------------------------------------------------------------------
(***************************************************************************)
(* SpecSeeds: one node that has run the Epoch event of its first epoch, or *)
(* of its second after an epoch of blocks of its own.  net holds a Genesis *)
(* message and two commitments of each of MaxCommitters other nodes and a  *)
(* commitment of a node that never sent a Genesis message; they are        *)
(* delivered each once, in any order, between up to MaxSeedTicks Mining    *)
(* ticks.  call holds the last epoch seed computed on request.             *)
(***************************************************************************)
MaxSeedTicks == 3
MaxCommitters == 1

SeedStarts ==
    {Epoch(BlockchainNew(WalletNew), NonceOf(1, 0)).node,
     Epoch(AfterOneEpoch, NonceOf(1, 1)).node}

SeedMessages ==
    {Message("genesis", s, [stake_txn |-> Transaction(1000 + s, s, s, STAKING_AMOUNT, "STAKE")]) :
        s \in 1..MaxCommitters}
    \cup {Message("hash_chain_com", s, HashChainCom(Commitment(HashChainNew(nonce)), s)) :
            s \in 1..MaxCommitters, nonce \in {40, 41}}
    \cup {Message("hash_chain_com", Outsider,
                  HashChainCom(Commitment(HashChainNew(42)), Outsider))}

InitSeeds ==
    /\ \E start \in SeedStarts : bc = <<start>>
    /\ events = <<[ticks |-> 0, delivered |-> {}]>>
    /\ net = SeedMessages
    /\ call = [op |-> "none"]
    /\ hc = IdleHashChain
    /\ builder = IdleBuilder
    /\ cert = NoCert

(* EventType::Mining *)
SeedMining ==
    /\ ~bc[1].crashed
    /\ events[1].ticks < MaxSeedTicks
    /\ bc[1].epoch.timestamp % EPOCH_DURATION # 0
    /\ bc' = <<After(Mining(bc[1]).node, "Mining")>>
    /\ events' = <<[events[1] EXCEPT !.ticks = @ + 1]>>
    /\ UNCHANGED <<net, call, hc, builder, cert>>

(* process_message, a Genesis or a HashChainCom *)
SeedReceive ==
    /\ ~bc[1].crashed
    /\ \E m \in net \ events[1].delivered :
        /\ bc' = <<IF m.type = "genesis" THEN ProcessGenesis(bc[1], m.body)
                   ELSE ProcessHashChainCom(bc[1], m.body)>>
        /\ events' = <<[events[1] EXCEPT !.delivered = @ \cup {m}]>>
    /\ UNCHANGED <<net, call, hc, builder, cert>>

(* Blockchain::new_epoch *)
SeedNewEpoch ==
    /\ ~bc[1].crashed
    /\ call' = [op |-> "new_epoch_seed", seed |-> NewEpochSeed(bc[1].validator)]
    /\ UNCHANGED <<bc, events, net, hc, builder, cert>>

NextSeeds == SeedMining \/ SeedReceive \/ SeedNewEpoch

SpecSeeds == InitSeeds /\ [][NextSeeds]_vars

C30_EpochSeedOverValidators ==
    call.op = "new_epoch_seed" =>
        call.seed = XorComs(bc[1].validator.hash_chain_com,
                            Range(bc[1].validator.state.accounts)
                                \cap DOMAIN bc[1].validator.hash_chain_com)

-----------------------------------------------------------------------------
(***************************************************************************)
(* SpecChain: one node through more than an epoch, with a peer of address  *)
(* Outsider whose messages are in net from the start and are delivered at  *)
(* any time, any number of times: its Genesis, the commitment of its hash  *)
(* chain, and blocks it made.  The node gets its Epoch timer event, then   *)
(* up to MaxChainTicks Mining ticks; Mining runs only when no Epoch event  *)
(* is queued.  events records the handler that ran last, the element of    *)
(* its hash chain the node put in each block it proposed, with the hash    *)
(* chain it held then, and every block id and block hash the node signed.  *)
(***************************************************************************)
MaxChainTicks == 11

OutsiderChain == HashChainNew(NonceOf(Outsider, 0))

(* a transaction of the peer *)
ForeignTxn == Transaction(77, Outsider, Outsider, 1, "TRANSACTION")

(* a block the peer made for slot `slot` of its hash chain *)
ForeignBlock(id, slot, txn) ==
    BlockNew(id, ZeroHash, slot, txn, Outsider, GetHash(OutsiderChain, RevealIndex(slot)),
             {}, None)

ChainBlocks ==
    {ForeignBlock(1, 1, <<>>), ForeignBlock(1, 1, <<ForeignTxn>>),
     ForeignBlock(20, EPOCH_DURATION - 1, <<>>), ForeignBlock(21, 0, <<>>)}

ChainMessages ==
    {Message("genesis", Outsider,
             [stake_txn |-> Transaction(1000 + Outsider, Outsider, Outsider,
                                        STAKING_AMOUNT, "STAKE")]),
     Message("hash_chain_com", Outsider, HashChainCom(Commitment(OutsiderChain), Outsider))}
    \cup {Message("block", Outsider, block) : block \in ChainBlocks}

InitChain ==
    /\ bc = <<BlockchainNew(WalletNew)>>
    /\ events = <<[ticks |-> 0, epoch |-> 1, epoch_no |-> 0, last |-> "none",
                   reveals |-> <<>>, signed |-> {}]>>
    /\ net = ChainMessages
    /\ hc = IdleHashChain
    /\ builder = IdleBuilder
    /\ cert = NoCert
    /\ call = NoCall

(* EventType::Epoch *)
ChainEpoch ==
    /\ ~bc[1].crashed
    /\ events[1].epoch > 0
    /\ bc' = <<Epoch(bc[1], NonceOf(1, events[1].epoch_no)).node>>
    /\ events' = <<[events[1] EXCEPT !.epoch = @ - 1, !.epoch_no = @ + 1, !.last = "Epoch"]>>
    /\ UNCHANGED <<net, hc, builder, cert, call>>

(* EventType::Mining *)
ChainMining ==
    /\ ~bc[1].crashed
    /\ events[1].epoch = 0
    /\ events[1].ticks < MaxChainTicks
    /\ LET r == Mining(bc[1])
       IN  /\ bc' = <<After(r.node, "Mining")>>
           /\ events' =
                <<[events[1] EXCEPT
                     !.ticks = @ + 1,
                     !.epoch = IF r.epoch_event THEN @ + 1 ELSE @,
                     !.last = "Mining",
                     !.reveals = @ \o [i \in 1..Cardinality(r.blocks) |->
                                          [hash_chain |-> bc[1].hash_chain,
                                           hash |-> Last(r.node.chain).proposer_hash]],
                     !.signed = @ \cup {[block_id |-> block.id, block_hash |-> block.hash] :
                                           block \in r.blocks}]>>
    /\ UNCHANGED <<net, hc, builder, cert, call>>

(* process_message, a Genesis or a HashChainCom *)
ChainReceive ==
    /\ ~bc[1].crashed
    /\ \E m \in {x \in net : x.type \in {"genesis", "hash_chain_com"}} :
        /\ bc' = <<IF m.type = "genesis" THEN ProcessGenesis(bc[1], m.body)
                   ELSE ProcessHashChainCom(bc[1], m.body)>>
        /\ events' = <<[events[1] EXCEPT !.last = m.type]>>
    /\ UNCHANGED <<net, hc, builder, cert, call>>

(* process_message, a Block *)
ChainReceiveBlock ==
    /\ ~bc[1].crashed
    /\ \E m \in {x \in net : x.type = "block"} :
        LET r == ProcessBlock(bc[1], m.body)
        IN  /\ bc' = <<After(r.node, "process_message")>>
            /\ events' = <<[events[1] EXCEPT
                              !.last = "block",
                              !.signed = @ \cup {[block_id |-> sig.block_id,
                                                  block_hash |-> sig.block_hash] :
                                                    sig \in r.sigs}]>>
    /\ UNCHANGED <<net, hc, builder, cert, call>>

NextChain == ChainEpoch \/ ChainMining \/ ChainReceive \/ ChainReceiveBlock

SpecChain == InitChain /\ [][NextChain]_vars

(* the position in a hash chain of one of its elements, counted from 0 *)
IndexIn(hash_chain, hash) ==
    CHOOSE i \in 0..(Len(hash_chain) - 1) : hash_chain[i + 1] = hash

(* C31: a Mining tick runs the election only at a slot in                  *)
(* 1..EPOCH_DURATION; when the node is elected the index it reads its hash *)
(* chain at is inside the chain, and the element it puts in the block is   *)
(* the one at EPOCH_DURATION - slot + 1, an index in 1..EPOCH_DURATION     *)
(* that is neither 0, the seed of the chain, nor the index of the          *)
(* commitment.                                                             *)
C31_RevealIndexInRange ==
    [][\A n \in DOMAIN bc :
         /\ (/\ events'[n].ticks = events[n].ticks + 1
             /\ events'[n].epoch = events[n].epoch
             /\ ~SelectPanics(bc[n].validator)
             /\ SelectBlockProposer(MiningSeed(bc[n]), bc[n].validator) = bc[n].wallet)
            => /\ GetHashInRange(bc[n].hash_chain, RevealIndex(bc[n].epoch.timestamp))
               /\ Proposes(n)
         /\ Proposes(n) =>
              LET slot == bc[n].epoch.timestamp
                  index == EPOCH_DURATION - slot + 1
              IN  /\ slot \in 1..EPOCH_DURATION
                  /\ index \in 1..EPOCH_DURATION
                  /\ index # 0
                  /\ index # Len(bc[n].hash_chain) - 1
                  /\ index < Len(bc[n].hash_chain)
                  /\ Last(bc'[n].chain).proposer_hash = bc[n].hash_chain[index + 1]
                  /\ Last(bc'[n].chain).proposer_hash # Commitment(bc[n].hash_chain)
                  /\ Last(bc'[n].chain).proposer_hash # bc[n].hash_chain[1]]_vars

(* the node has proposed at the first and at the last mining slot of an    *)
(* epoch, rolled the epoch over and proposed again                         *)
C31_Witness ==
    /\ Len(events[1].reveals) >= EPOCH_DURATION
    /\ \E k \in 1..Len(bc[1].chain) :
          /\ bc[1].chain[k].proposer_address = bc[1].wallet
          /\ bc[1].chain[k].proposer_hash = events[1].reveals[1].hash_chain[3]
    /\ events[1].reveals[1].hash = events[1].reveals[1].hash_chain[EPOCH_DURATION + 1]
    /\ events[1].epoch_no = 2


(* C32: of two blocks a node proposed while it held the same hash chain,   *)
(* the later one carries an element of the chain with a strictly lower     *)
(* index: no element is put in two blocks, and no element is revealed      *)
(* after one that lies deeper in the chain.                                *)
C32_RevealsStrictlyDecreasing ==
    \A n \in DOMAIN events :
        \A i, j \in 1..Len(events[n].reveals) :
            (i < j /\ events[n].reveals[i].hash_chain = events[n].reveals[j].hash_chain)
                => IndexIn(events[n].reveals[j].hash_chain, events[n].reveals[j].hash)
                     < IndexIn(events[n].reveals[i].hash_chain, events[n].reveals[i].hash)


(* C33: when a node proposes a block, the transactions the proposal takes  *)
(* out of the node's mempool are at most MAX_TXNS_PER_BLOCK and every one  *)
(* of them is a transaction of the proposed block.                         *)
C33_DrainedTransactionsInBlock ==
    [][\A n \in DOMAIN bc :
         Proposes(n) =>
            LET block == Last(bc'[n].chain)
                drained == Range(bc[n].mempool) \ Range(bc'[n].mempool)
            IN  /\ Cardinality(drained) <= MAX_TXNS_PER_BLOCK
                /\ drained \subseteq Range(block.txn)]_vars


(* C34: no transaction hash is in two blocks of the chain of a node, or    *)
(* twice in one block: a transaction the node accepted before is not       *)
(* taken into its mempool, and so into a block, a second time.             *)
C34_NoTransactionInTwoBlocks ==
    \A n \in DOMAIN bc :
        \A i, j \in 1..Len(bc[n].chain) :
            \A k \in 1..Len(bc[n].chain[i].txn), l \in 1..Len(bc[n].chain[j].txn) :
                bc[n].chain[i].txn[k].hash = bc[n].chain[j].txn[l].hash => (i = j /\ k = l)


(* C35: when a node appends a block it received, the proposer_address of   *)
(* the block is the validator that select_block_proposer returns to the    *)
(* node for the seed of the slot the node is in.                           *)
C35_ReceivedBlockFromElectedProposer ==
    [][\A n \in DOMAIN bc :
         (/\ events'[n].last = "block"
          /\ events'[n].ticks = events[n].ticks
          /\ Len(bc'[n].chain) = Len(bc[n].chain) + 1)
            => /\ ~SelectPanics(bc[n].validator)
               /\ Last(bc'[n].chain).proposer_address
                    = SelectBlockProposer(MiningSeed(bc[n]), bc[n].validator)]_vars


(* C36: all the block signatures a node has made for one block id, as      *)
(* proposer of a block or as receiver of one, are over the same block      *)
(* hash.                                                                   *)
C36_OneHashSignedPerBlockId ==
    \A n \in DOMAIN events :
        \A s, t \in events[n].signed : s.block_id = t.block_id => s.block_hash = t.block_hash


(* C37: a stored last_certificate (k, cert) is for a block with id k of    *)
(* the node's chain, and every signature in the signature slots of cert is *)
(* one made by the validator of that position over the hash of that block. *)
C37_StoredCertificateOverOwnBlock ==
    \A n \in DOMAIN bc :
        IsSome(bc[n].last_certificate) =>
            LET k == Unwrap(bc[n].last_certificate)[1]
                certificate == Unwrap(bc[n].last_certificate)[2]
                blocks == {i \in 1..Len(bc[n].chain) : bc[n].chain[i].id = k}
            IN  /\ blocks # {}
                /\ \A i \in blocks, pos \in 1..Len(certificate.sig_commit) :
                      IsSome(certificate.sig_commit[pos].signature) =>
                          /\ Unwrap(certificate.sig_commit[pos].signature).msg
                               = bc[n].chain[i].hash
                          /\ Unwrap(certificate.sig_commit[pos].signature).signer
                               = bc[n].validator.state.accounts[pos]


(* C38: every account of the validator sequence of a node has a recorded   *)
(* stake of at least STAKING_AMOUNT.                                       *)
C38_ValidatorsHoldStakingAmount ==
    \A n \in DOMAIN bc :
        \A i \in 1..Len(bc[n].validator.state.accounts) :
            /\ bc[n].validator.state.accounts[i] \in DOMAIN bc[n].validator.state.balances
            /\ bc[n].validator.state.balances[bc[n].validator.state.accounts[i]]
                 >= STAKING_AMOUNT


(* C39: once a node has a block in its chain, a step changes its validator *)
(* sequence or the validator stakes only if it is a Mining tick or a       *)
(* received block that runs end_of_epoch, which leaves the staking buffer  *)
(* empty and the epoch at timestamp 0.                                     *)
C39_ValidatorsChangeOnlyAtEndOfEpoch ==
    [][\A n \in DOMAIN bc :
         (bc[n].chain # <<>> /\ bc'[n].validator.state # bc[n].validator.state)
            => /\ events'[n].last \in {"Mining", "block"}
               /\ bc'[n].epoch.timestamp = 0
               /\ bc'[n].buffer = [accounts |-> <<>>, txns |-> <<>>]]_vars


(* C40: a stored certificate has a signed_weight equal to the total stake  *)
(* of the validator sequence, which is the proven_weight it was built for, *)
(* and reveals exactly one position, for one coin.                         *)
C40_StoredCertificateFullWeight ==
    \A n \in DOMAIN bc :
        IsSome(bc[n].last_certificate) =>
            LET certificate == Unwrap(bc[n].last_certificate)[2]
            IN  /\ certificate.signed_weight = TotalStake(bc[n].validator, 1)
                /\ certificate.signed_weight
                     = CertParams(bc[n], ZeroHash).proven_weight
                /\ NumReveals(128, CertParams(bc[n], ZeroHash).proven_weight,
                              certificate.signed_weight) = 1
                /\ Len(certificate.reveal_positions) = 1
                /\ Cardinality(DOMAIN certificate.reveals) = 1
                /\ certificate.reveal_indices = <<0>>

(* a certificate stored on signatures of more than one validator, that was *)
(* not stored when the node proposed the block                             *)
C40_Witness ==
    /\ IsSome(bc[1].last_certificate)
    /\ Len(bc[1].validator.state.accounts) >= 2
    /\ Unwrap(bc[1].last_certificate)[2].signed_weight >= 2 * STAKING_AMOUNT
    /\ events.delivered # {}
    /\ Len(Unwrap(bc[1].last_certificate)[2].reveal_positions) = 1

=============================================================================
